---- MODULE Spec2Model ----
(***************************************************************************)
(* archive_reader: the synchronisation core (core.py, models.py,           *)
(* hyperkitty.py) as a state machine.  The relational store is four        *)
(* append-only tables; a row's primary key is its position in the table.   *)
(* Every await of the source is a step boundary: an action is the code     *)
(* between two suspension points.                                          *)
(***************************************************************************)
EXTENDS Integers, Sequences, FiniteSets, TLC

\* ------------------------------------------------------------- bounds
\* update_emails calls made over a run (sequential or in flight together)
MaxCalls == 2
\* item URLs in a thread's remote emails collection
MaxListing == 2
\* responses handed to one stand-alone fetch_urls call
MaxBatch == 3
\* subscribe_lists calls made over a run, and records per call
MaxSubCalls == 2
MaxSubscribe == 2
\* update_threads calls made over a run
MaxThreadCalls == 2
\* calls made on one remote client over a run
MaxClientCalls == 3
\* fetch_lists calls made over a run
MaxDiscoveries == 2
\* replies a remote thread can receive
MaxReplies == 2
\* update_threads workers started in one session of the app
MaxWorkers == 2
\* names passed to one _store_subscribed_lists call
MaxStoreLen == 2

VARIABLES
    remote,     \* remote archive: thread url -> item URLs of its emails collection
    senders,    \* table sender
    emails,     \* table email
    ue,         \* update_emails calls: the locals of each coroutine
    bodyGets,   \* network log: GETs issued per email item URL
    staleGets,  \* network log: item URLs requested while a stored Email had that url
    fu,         \* a stand-alone fetch_urls call: its input and its outcome
    mailinglists,   \* table mailinglist
    sl,             \* subscribe_lists calls: the locals of each coroutine
    threads,        \* table thread
    remoteThreads,  \* remote archive: replies_count of each thread of each list
    ut,             \* update_threads calls: the locals of each coroutine
    gets,           \* network log: HTTP GETs issued so far
    rd,             \* the last read of the store (threads(), emails()) and its result
    hk,             \* a Hyperkitty client: its caches, and its last call and result
    fl,             \* ListManager.fetch_lists: the calls made and the last result
    existing_threads,     \* ArchiveApp._existing_threads
    cache,                \* the disk cache of storage.py: key -> value
    current_mailinglist,  \* ArchiveApp.current_mailinglist, "none" before a selection
    threads_view,         \* the Thread widgets of the '#threads' ListView
    loading,              \* LoadingIndicator.display
    workers,              \* the update_threads workers of the session
    updated,              \* the Thread.Updated messages posted and not yet handled
    subscribed,           \* the disk cache entry under SUBSCRIBED_ML
    screen                \* a ThreadReadScreen of screens.py: its thread, view and workers

emailVars == <<remote, senders, emails, ue, bodyGets, staleGets>>
listVars == <<mailinglists, sl>>
threadVars == <<threads, remoteThreads, ut>>
\* the state of the terminal app
appVars == <<existing_threads, cache, current_mailinglist, threads_view, loading,
             workers, updated>>
\* the state of list discovery, and the app
\* the subscribed lists of the app, and the thread reading screen
uiVars == <<subscribed, screen>>
restVars == <<fl, appVars, uiVars>>

vars == <<emailVars, fu, listVars, threadVars, gets, rd, hk, restVars>>

\* what the update_emails actions leave alone
othersOfEmails == <<fu, listVars, threadVars, rd, hk, restVars>>

\* ------------------------------------------------------ remote archive
ThreadURLs == {"t1", "t2"}

EmailURLs == {"u1", "u2", "u3", "u4"}

\* The JSON body the archive serves for an email item URL.  u3 is u1
\* cross-posted to a second list: same Message-ID hash, other url and thread.
EmailJson(u) ==
    CASE u = "u1" -> [url |-> "u1", message_id_hash |-> "h1", thread |-> "t1",
                      sender |-> [mailman_id |-> "s1"]]
      [] u = "u2" -> [url |-> "u2", message_id_hash |-> "h2", thread |-> "t1",
                      sender |-> [mailman_id |-> "s1"]]
      [] u = "u3" -> [url |-> "u3", message_id_hash |-> "h1", thread |-> "t2",
                      sender |-> [mailman_id |-> "s1"]]
      [] u = "u4" -> [url |-> "u4", message_id_hash |-> "h4", thread |-> "t2",
                      sender |-> [mailman_id |-> "s2"]]

\* The emails of a thread in the order the archive received them.
ItemOrder(t) == IF t = "t1" THEN <<"u1", "u2">> ELSE <<"u3", "u4">>

\* What one client.get can end with: a status code, or a transport failure.
Statuses == {"200", "404", "ConnectError"}

\* ------------------------------------------------------------ helpers
Range(s) == {s[i] : i \in DOMAIN s}

Indices(s, Test(_)) == SelectSeq([i \in 1..Len(s) |-> i], Test)

\* ------------------------------------------------------- hyperkitty.py
\* hyperkitty.py 94-110 with asyncio.gather(*tasks, return_exceptions=True):
\* a transport failure becomes one more entry of failed.
fetch_urls_return_exceptions(results, logger) ==
    IF logger = "None" /\ \E i \in DOMAIN results : results[i].status_code # "200"
    THEN [outcome |-> "TypeError", success |-> <<>>, failed |-> <<>>]
    ELSE LET ok  == Indices(results, LAMBDA i : results[i].status_code = "200")
             bad == Indices(results, LAMBDA i : results[i].status_code # "200")
         IN  [outcome |-> "ok",
              success |-> [k \in 1..Len(ok) |-> results[ok[k]].json],
              failed  |-> [k \in 1..Len(bad) |-> results[bad[k]]]]

\* fetch_urls(urls, logger) once every client.get of the batch has ended:
\* results[i] = [url, status_code, json].  asyncio.gather re-raises a
\* transport failure; the loop then walks the responses in order and calls
\* logger(resp) on the first one that is not 200.
fetch_urls(results, logger) ==
    IF \E i \in DOMAIN results : results[i].status_code = "ConnectError"
    THEN [outcome |-> "ConnectError", success |-> <<>>, failed |-> <<>>]
    ELSE IF logger = "None" /\ \E i \in DOMAIN results : results[i].status_code # "200"
    THEN [outcome |-> "TypeError", success |-> <<>>, failed |-> <<>>]
    ELSE LET ok  == Indices(results, LAMBDA i : results[i].status_code = "200")
             bad == Indices(results, LAMBDA i : results[i].status_code # "200")
         IN  [outcome |-> "ok",
              success |-> [k \in 1..Len(ok) |-> results[ok[k]].json],
              failed  |-> [k \in 1..Len(bad) |-> results[bad[k]]]]

\* ------------------------------------------------------------ models.py
\* Model.objects.filter(**kw) / get(**kw): the primary keys of the matching rows.
Sender_filter(mailman_id) ==
    {k \in DOMAIN senders : senders[k].mailman_id = mailman_id}

Email_filter_hash(h) ==
    {k \in DOMAIN emails : emails[k].message_id_hash = h}

\* EmailManager.filter(thread=...)
Email_filter_thread(t) ==
    {k \in DOMAIN emails : emails[k].thread = t}

\* ------------------------------------------------ core.py: update_emails
Calls == 1..MaxCalls

NoCall ==
    [pc |-> "idle", thread |-> "none", reply_urls |-> <<>>,
     existing_email_urls |-> {}, new_urls |-> <<>>, requested |-> <<>>,
     answers |-> <<>>, tasks |-> <<>>, result |-> <<>>, err |-> "none",
     list_status |-> "none", err_arg |-> "none"]

\* thread.emails: the URL of the thread's emails collection
EmailsCollection(t) == <<"emails", t>>

Count(u, s) == Cardinality({i \in DOMAIN s : s[i] = u})

\* core.py 55-57 without the "if url not in existing_email_urls" test
new_urls_of_unfiltered(reply_urls, existing_email_urls) == reply_urls

\* core.py 55-57
new_urls_of(reply_urls, existing_email_urls) ==
    SelectSeq(reply_urls, LAMBDA url : url \notin existing_email_urls)

\* The remote collection grows: the thread's next email is listed.
RemoteAppend(t, u) ==
    /\ Len(remote[t]) < MaxListing
    /\ \E n \in DOMAIN ItemOrder(t) :
          /\ u = ItemOrder(t)[n]
          /\ Range(remote[t]) = {ItemOrder(t)[k] : k \in 1..n - 1}
    /\ remote' = [remote EXCEPT ![t] = Append(@, u)]
    /\ UNCHANGED <<senders, emails, ue, bodyGets, staleGets, gets, othersOfEmails>>

\* The remote collection lists an item a second time.
RemoteRepeat(t, u) ==
    /\ Len(remote[t]) < MaxListing
    /\ u \in Range(remote[t])
    /\ remote' = [remote EXCEPT ![t] = Append(@, u)]
    /\ UNCHANGED <<senders, emails, ue, bodyGets, staleGets, gets, othersOfEmails>>

\* update_emails(thread) is called: runs up to the first await.
UE_Call(c, t) ==
    /\ ue[c].pc = "idle"
    /\ ue' = [ue EXCEPT ![c] = [NoCall EXCEPT !.pc = "fetch_list", !.thread = t]]
    /\ UNCHANGED <<remote, senders, emails, bodyGets, staleGets, gets, othersOfEmails>>

\* core.py 46-52 without the try/except of 46 and 48: the transport failure
\* leaves update_emails as it came.
UE_FetchUrlList_no_except(c) ==
    /\ ue[c].pc = "fetch_list"
    /\ \E st \in Statuses :
         LET t == ue[c].thread
             r == fetch_urls(<<[url |-> EmailsCollection(t), status_code |-> st,
                                json |-> [results |-> remote[t]]]>>, "log")
         IN  ue' = [ue EXCEPT ![c] =
                 IF r.outcome = "ConnectError"
                 THEN [@ EXCEPT !.pc = "raised", !.err = "ConnectError",
                                !.list_status = st]
                 ELSE IF r.success = <<>>
                 THEN [@ EXCEPT !.pc = "raised", !.err = "IndexError",
                                !.list_status = st]
                 ELSE [@ EXCEPT !.pc = "filter", !.list_status = st,
                                !.reply_urls = r.success[1].results]]
    /\ gets' = gets + 1
    /\ UNCHANGED <<remote, senders, emails, bodyGets, staleGets, othersOfEmails>>

\* core.py 46-52: fetch_urls([thread.emails], log) ends.  A ConnectError is
\* turned into RemoteURLFetchException(thread.emails); on a non-200 answer
\* replies is empty and replies[0] raises IndexError.
UE_FetchUrlList(c) ==
    /\ ue[c].pc = "fetch_list"
    /\ \E st \in Statuses :
         LET t == ue[c].thread
             r == fetch_urls(<<[url |-> EmailsCollection(t), status_code |-> st,
                                json |-> [results |-> remote[t]]]>>, "log")
         IN  ue' = [ue EXCEPT ![c] =
                 IF r.outcome = "ConnectError"
                 THEN [@ EXCEPT !.pc = "raised", !.err = "RemoteURLFetchException",
                                !.err_arg = EmailsCollection(t),
                                !.list_status = st]
                 ELSE IF r.success = <<>>
                 THEN [@ EXCEPT !.pc = "raised", !.err = "IndexError",
                                !.list_status = st]
                 ELSE [@ EXCEPT !.pc = "filter", !.list_status = st,
                                !.reply_urls = r.success[1].results]]
    /\ gets' = gets + 1
    /\ UNCHANGED <<remote, senders, emails, bodyGets, staleGets, othersOfEmails>>

\* core.py 53-60: the store answers email_mgr.filter(thread=thread.url).
UE_FilterExisting(c) ==
    /\ ue[c].pc = "filter"
    /\ LET existing == {emails[k].url : k \in Email_filter_thread(ue[c].thread)}
           new      == new_urls_of(ue[c].reply_urls, existing)
       IN  ue' = [ue EXCEPT ![c] =
               [@ EXCEPT !.existing_email_urls = existing,
                         !.new_urls = new,
                         !.pc = IF new = <<>> THEN "returned" ELSE "fetch_bodies"]]
    /\ UNCHANGED <<remote, senders, emails, bodyGets, staleGets, gets, othersOfEmails>>

\* core.py 61-65: fetch_urls(new_urls), called without a logger, ends; one
\* EmailManager.create coroutine is made per reply.
UE_FetchBodies(c) ==
    /\ ue[c].pc = "fetch_bodies"
    /\ \E answers \in [1..Len(ue[c].new_urls) -> Statuses] :
         LET urls == ue[c].new_urls
             r == fetch_urls([i \in 1..Len(urls) |->
                                 [url |-> urls[i], status_code |-> answers[i],
                                  json |-> EmailJson(urls[i])]], "None")
         IN  ue' = [ue EXCEPT ![c] =
                 IF r.outcome # "ok"
                 THEN [@ EXCEPT !.pc = "raised", !.err = r.outcome,
                                !.requested = urls, !.answers = answers]
                 ELSE [@ EXCEPT !.pc = "persist",
                                !.requested = urls, !.answers = answers,
                                !.tasks = [k \in 1..Len(r.success) |->
                                    [json |-> r.success[k], pc |-> "sender_get",
                                     sender_obj |-> 0, obj |-> 0,
                                     created |-> FALSE, exc |-> "none",
                                     recovered |-> FALSE]]]]
    /\ bodyGets' = [u \in EmailURLs |-> bodyGets[u] + Count(u, ue[c].new_urls)]
    /\ staleGets' = staleGets \cup
           {u \in Range(ue[c].new_urls) : \E k \in DOMAIN emails : emails[k].url = u}
    /\ UNCHANGED <<remote, senders, emails, othersOfEmails>>
    /\ gets' = gets + Len(ue[c].new_urls)

\* -------------------------------------------- models.py: EmailManager.create
\* A task of the asyncio.gather batch: create(json_data) between two awaits.
TaskAt(c, i, where) ==
    /\ i \in DOMAIN ue[c].tasks
    /\ ue[c].tasks[i].pc = where

\* An exception leaves create(): gather hands the first one to update_emails,
\* which is still awaiting it; the sibling tasks keep running.
TaskRaises(c, i, e) ==
    [ue EXCEPT ![c] =
        [@ EXCEPT !.tasks[i].pc = "failed",
                  !.tasks[i].exc = e,
                  !.pc = IF @ = "persist" THEN "raised" ELSE @,
                  !.err = IF ue[c].pc = "persist" THEN e ELSE @]]

\* models.py 88-90: the SELECT of Sender.objects.get_or_create.
Create_SenderGet(c, i) ==
    /\ TaskAt(c, i, "sender_get")
    /\ LET found == Sender_filter(ue[c].tasks[i].json.sender.mailman_id)
       IN  ue' = [ue EXCEPT ![c].tasks[i] =
               IF found = {}
               THEN [@ EXCEPT !.pc = "sender_create"]
               ELSE [@ EXCEPT !.pc = "email_get",
                              !.sender_obj = CHOOSE k \in found : TRUE]]
    /\ UNCHANGED <<remote, senders, emails, bodyGets, staleGets, gets, othersOfEmails>>

\* models.py 88-90 without the try/except of 87 and 92: the refused INSERT
\* leaves create() as IntegrityError.
Create_SenderInsert_no_except(c, i) ==
    /\ TaskAt(c, i, "sender_create")
    /\ LET m == ue[c].tasks[i].json.sender.mailman_id
       IN  IF Sender_filter(m) # {}
           THEN /\ ue' = TaskRaises(c, i, "IntegrityError")
                /\ UNCHANGED senders
           ELSE /\ senders' = Append(senders, [mailman_id |-> m])
                /\ ue' = [ue EXCEPT ![c].tasks[i] =
                       [@ EXCEPT !.pc = "email_get",
                                 !.sender_obj = Len(senders) + 1]]
    /\ UNCHANGED <<remote, emails, bodyGets, staleGets, gets, othersOfEmails>>

\* models.py 88-92: the INSERT of Sender.objects.get_or_create; sender.mailman_id
\* is unique=True, so a second row is refused with IntegrityError, caught at 92.
Create_SenderInsert(c, i) ==
    /\ TaskAt(c, i, "sender_create")
    /\ LET m == ue[c].tasks[i].json.sender.mailman_id
       IN  IF Sender_filter(m) # {}
           THEN /\ ue' = [ue EXCEPT ![c].tasks[i] =
                       [@ EXCEPT !.pc = "sender_recover", !.recovered = TRUE]]
                /\ UNCHANGED senders
           ELSE /\ senders' = Append(senders, [mailman_id |-> m])
                /\ ue' = [ue EXCEPT ![c].tasks[i] =
                       [@ EXCEPT !.pc = "email_get",
                                 !.sender_obj = Len(senders) + 1]]
    /\ UNCHANGED <<remote, emails, bodyGets, staleGets, gets, othersOfEmails>>

\* models.py 92-97 with an except branch that only swallows the error: the
\* sender stays the JSON dict, no Sender row.
Create_SenderRecover_unresolved(c, i) ==
    /\ TaskAt(c, i, "sender_recover")
    /\ ue' = [ue EXCEPT ![c].tasks[i] = [@ EXCEPT !.pc = "email_get"]]
    /\ UNCHANGED <<remote, senders, emails, bodyGets, staleGets, gets, othersOfEmails>>

\* models.py 92-97: the except branch reads the winner's row.
Create_SenderRecover(c, i) ==
    /\ TaskAt(c, i, "sender_recover")
    /\ LET found == Sender_filter(ue[c].tasks[i].json.sender.mailman_id)
       IN  ue' = [ue EXCEPT ![c].tasks[i] =
               [@ EXCEPT !.pc = "email_get",
                         !.sender_obj = CHOOSE k \in found : TRUE]]
    /\ UNCHANGED <<remote, senders, emails, bodyGets, staleGets, gets, othersOfEmails>>

\* An update_or_create in place of models.py 98-101: the row found is
\* rewritten with the payload's fields.
Create_EmailGet_overwrites(c, i) ==
    /\ TaskAt(c, i, "email_get")
    /\ LET found == Email_filter_hash(ue[c].tasks[i].json.message_id_hash)
           j     == ue[c].tasks[i].json
           k     == CHOOSE x \in found : TRUE
       IN  /\ ue' = IF Cardinality(found) > 1
                    THEN TaskRaises(c, i, "MultipleMatches")
                    ELSE [ue EXCEPT ![c].tasks[i] =
                           IF found = {}
                           THEN [@ EXCEPT !.pc = "email_create"]
                           ELSE [@ EXCEPT !.pc = "done", !.obj = k,
                                          !.created = FALSE]]
           /\ emails' = IF Cardinality(found) = 1
                        THEN [emails EXCEPT ![k] =
                                [@ EXCEPT !.url = j.url, !.thread = j.thread]]
                        ELSE emails
    /\ UNCHANGED <<remote, senders, bodyGets, staleGets, gets, othersOfEmails>>

\* models.py 98-101: the SELECT of Email.objects.get_or_create; get() raises
\* MultipleMatches when several rows carry the hash.
Create_EmailGet(c, i) ==
    /\ TaskAt(c, i, "email_get")
    /\ LET found == Email_filter_hash(ue[c].tasks[i].json.message_id_hash)
       IN  ue' = IF Cardinality(found) > 1
                 THEN TaskRaises(c, i, "MultipleMatches")
                 ELSE [ue EXCEPT ![c].tasks[i] =
                        IF found = {}
                        THEN [@ EXCEPT !.pc = "email_create"]
                        ELSE [@ EXCEPT !.pc = "done",
                                       !.obj = CHOOSE k \in found : TRUE,
                                       !.created = FALSE]]
    /\ UNCHANGED <<remote, senders, emails, bodyGets, staleGets, gets, othersOfEmails>>

\* models.py 98-101: the INSERT of Email.objects.get_or_create; no column of
\* the email table but id is unique, so the insert always succeeds.
Create_EmailInsert(c, i) ==
    /\ TaskAt(c, i, "email_create")
    /\ LET j == ue[c].tasks[i].json
       IN  emails' = Append(emails,
               [url |-> j.url, message_id_hash |-> j.message_id_hash,
                thread |-> j.thread, sender |-> ue[c].tasks[i].sender_obj])
    /\ ue' = [ue EXCEPT ![c].tasks[i] =
           [@ EXCEPT !.pc = "done", !.obj = Len(emails) + 1, !.created = TRUE]]
    /\ UNCHANGED <<remote, senders, bodyGets, staleGets, gets, othersOfEmails>>

\* core.py 66-67: gather ends, every task done.
UE_Return(c) ==
    /\ ue[c].pc = "persist"
    /\ \A i \in DOMAIN ue[c].tasks : ue[c].tasks[i].pc = "done"
    /\ ue' = [ue EXCEPT ![c] =
           [@ EXCEPT !.pc = "returned",
                     !.result = [i \in DOMAIN ue[c].tasks |-> ue[c].tasks[i].obj]]]
    /\ UNCHANGED <<remote, senders, emails, bodyGets, staleGets, gets, othersOfEmails>>

\* The task running update_emails is cancelled while the call is suspended at
\* one of its awaits (core.py 47, 53, 61, 66): CancelledError ends the call;
\* at 66 asyncio.gather cancels every create() that has not finished, each of
\* them suspended between two statements of models.py 88-101.
UE_Cancel(c) ==
    /\ ue[c].pc \in {"fetch_list", "filter", "fetch_bodies", "persist"}
    /\ ue' = [ue EXCEPT ![c] =
           [@ EXCEPT !.pc = "cancelled",
                     !.err = "CancelledError",
                     !.tasks = [i \in DOMAIN @ |->
                                  IF @[i].pc = "done" THEN @[i]
                                  ELSE [@[i] EXCEPT !.pc = "cancelled"]]]]
    /\ UNCHANGED <<remote, senders, emails, bodyGets, staleGets, gets, othersOfEmails>>

\* --------------------------------------------- core.py: subscribe_lists
SubCalls == 1..MaxSubCalls

\* The mailing-list records a server's lists page can hold; the description
\* of list A was edited on the server at some point.
ListRecords ==
    {[url |-> "A", description |-> "d1"], [url |-> "A", description |-> "d2"],
     [url |-> "B", description |-> "d1"]}

RECURSIVE SeqsUpTo(_, _)
SeqsUpTo(S, n) ==
    IF n = 0 THEN {<<>>}
    ELSE LET shorter == SeqsUpTo(S, n - 1)
         IN  shorter \cup {Append(q, x) : q \in shorter, x \in S}

NoSubscribe == [pc |-> "idle", lists |-> <<>>, k |-> 0, objs |-> <<>>, err |-> "none"]

MailingList_filter(url) ==
    {j \in DOMAIN mailinglists : mailinglists[j].url = url}

\* core.py 124-126: objs.append(obj[0]) and the next turn of the loop.
SL_Append(s, obj) ==
    [sl EXCEPT ![s] =
        [@ EXCEPT !.objs = Append(@, obj),
                  !.k = @ + 1,
                  !.pc = IF sl[s].k = Len(sl[s].lists) THEN "returned" ELSE "get"]]

\* subscribe_lists(lists) is called.
SL_Call(s, lists) ==
    /\ sl[s].pc = "idle"
    /\ sl' = [sl EXCEPT ![s] =
           [NoSubscribe EXCEPT !.lists = lists, !.k = 1,
                               !.pc = IF lists = <<>> THEN "returned" ELSE "get"]]
    /\ UNCHANGED <<mailinglists, emailVars, fu, gets, rd, hk, threadVars, restVars>>

\* core.py 122-124 with a get_or_create whose SELECT never matches.
SL_Get_never_found(s) ==
    /\ sl[s].pc = "get"
    /\ sl' = [sl EXCEPT ![s].pc = "create"]
    /\ UNCHANGED <<mailinglists, emailVars, fu, gets, rd, hk, threadVars, restVars>>

\* core.py 122-124 with update_or_create in place of get_or_create: a row
\* found is overwritten with the record.
SL_Get_updates_existing(s) ==
    /\ sl[s].pc = "get"
    /\ LET found == MailingList_filter(sl[s].lists[sl[s].k].url)
       IN  IF Cardinality(found) > 1
           THEN /\ sl' = [sl EXCEPT ![s].pc = "raised", ![s].err = "MultipleMatches"]
                /\ UNCHANGED mailinglists
           ELSE IF found = {}
           THEN /\ sl' = [sl EXCEPT ![s].pc = "create"]
                /\ UNCHANGED mailinglists
           ELSE /\ sl' = SL_Append(s, CHOOSE j \in found : TRUE)
                /\ mailinglists' = [mailinglists EXCEPT ![CHOOSE j \in found : TRUE] =
                                       sl[s].lists[sl[s].k]]
    /\ UNCHANGED <<emailVars, fu, gets, rd, hk, threadVars, restVars>>

\* core.py 122-124: the SELECT of MailingList.objects.get_or_create(url=...).
SL_Get(s) ==
    /\ sl[s].pc = "get"
    /\ LET found == MailingList_filter(sl[s].lists[sl[s].k].url)
       IN  sl' = IF Cardinality(found) > 1
                 THEN [sl EXCEPT ![s].pc = "raised", ![s].err = "MultipleMatches"]
                 ELSE IF found = {}
                 THEN [sl EXCEPT ![s].pc = "create"]
                 ELSE SL_Append(s, CHOOSE j \in found : TRUE)
    /\ UNCHANGED <<mailinglists, emailVars, fu, gets, rd, hk, threadVars, restVars>>

\* core.py 122-124: the INSERT of get_or_create, with defaults=ml; no column
\* of the mailinglist table but id is unique.
SL_Create(s) ==
    /\ sl[s].pc = "create"
    /\ mailinglists' = Append(mailinglists, sl[s].lists[sl[s].k])
    /\ sl' = SL_Append(s, Len(mailinglists) + 1)
    /\ UNCHANGED <<emailVars, fu, gets, rd, hk, threadVars, restVars>>

\* ------------------------------------- core.py: fetch_lists and lists
NoDiscovery == [n |-> 0, server_url |-> "none", outcome |-> "none", page |-> <<>>]

ServerURLs == {"srv1", "srv2"}

\* The lists page a server serves.
MailingListPage(server_url) ==
    IF server_url = "srv1"
    THEN <<[url |-> "A", description |-> "d2"], [url |-> "B", description |-> "d1"]>>
    ELSE <<>>

\* hyperktty_client.lists(server_url): the raw page on a 200 answer, an error
\* otherwise.
hyperktty_client_lists(server_url, st) ==
    IF st = "200" THEN [outcome |-> "ok", page |-> MailingListPage(server_url)]
    ELSE IF st = "ConnectError" THEN [outcome |-> "RemoteConnectError", page |-> <<>>]
    ELSE [outcome |-> "RemoteRequestError", page |-> <<>>]

\* core.py 97-104 with a fetch_lists that stores what it found.
LM_fetch_lists_subscribes(server_url) ==
    /\ fl.n < MaxDiscoveries
    /\ \E st \in Statuses :
         LET r == hyperktty_client_lists(server_url, st)
         IN  /\ fl' = [n |-> fl.n + 1, server_url |-> server_url,
                       outcome |-> r.outcome, page |-> r.page]
             /\ mailinglists' = mailinglists \o r.page
    /\ gets' = gets + 1
    /\ UNCHANGED <<sl, emailVars, fu, threadVars, rd, hk, appVars, uiVars>>

\* core.py 97-104: fetch_lists(server_url) returns what the client returns.
LM_fetch_lists(server_url) ==
    /\ fl.n < MaxDiscoveries
    /\ \E st \in Statuses :
         LET r == hyperktty_client_lists(server_url, st)
         IN  fl' = [n |-> fl.n + 1, server_url |-> server_url,
                    outcome |-> r.outcome, page |-> r.page]
    /\ gets' = gets + 1
    /\ UNCHANGED <<listVars, emailVars, fu, threadVars, rd, hk, appVars, uiVars>>

\* core.py 106-112: lists() returns MailingList.objects.all().
LM_lists ==
    /\ rd' = [op |-> "lists", arg |-> "none", err |-> "none",
              out |-> [j \in 1..Len(mailinglists) |-> j]]
    /\ UNCHANGED <<emailVars, fu, listVars, threadVars, gets, hk, restVars>>

\* --------------------------------------------- core.py: update_threads
ThreadCalls == 1..MaxThreadCalls

ListURLs == {"A", "B"}

\* The threads of the remote archive: <<list url, thread_id>>.  Thread x was
\* started by a message cross-posted to both lists.
RemoteThreadKeys == {<<"A", "x">>, <<"A", "y">>, <<"B", "x">>}

NoUpdate == [pc |-> "idle", ml |-> "none", page |-> <<>>, k |-> 0,
             thread_objs |-> <<>>, err |-> "none"]

\* The first page of a list's threads collection as the archive serves it now.
ThreadsPage(L) ==
    LET ids == IF L = "A" THEN <<"x", "y">> ELSE <<"x">>
    IN  [results |-> [n \in 1..Len(ids) |->
            [thread_id |-> ids[n], mailinglist |-> L,
             replies_count |-> remoteThreads[<<L, ids[n]>>]]]]

\* hyperktty_client.threads(url): the page on a 200 answer, an error otherwise.
hyperktty_client_threads(L, st) ==
    IF st = "200" THEN [outcome |-> "ok", page |-> ThreadsPage(L)]
    ELSE [outcome |-> "RemoteRequestError", page |-> [results |-> <<>>]]

Thread_filter(thread_id) ==
    {j \in DOMAIN threads : threads[j].thread_id = thread_id}

\* A thread of the archive receives a reply.
RemoteReply(th) ==
    /\ remoteThreads[th] < MaxReplies
    /\ remoteThreads' = [remoteThreads EXCEPT ![th] = @ + 1]
    /\ UNCHANGED <<threads, ut, emailVars, fu, gets, rd, hk, listVars, restVars>>

\* core.py 89 and the next turn of the loop at 85.
UT_Append(m, obj) ==
    [ut EXCEPT ![m] =
        [@ EXCEPT !.thread_objs = Append(@, obj),
                  !.k = @ + 1,
                  !.pc = IF ut[m].k = Len(ut[m].page) THEN "returned" ELSE "get"]]

\* update_threads() is called on the manager of list L.
UT_Call(m, L) ==
    /\ ut[m].pc = "idle"
    /\ ut' = [ut EXCEPT ![m] = [NoUpdate EXCEPT !.pc = "fetch", !.ml = L]]
    /\ UNCHANGED <<threads, remoteThreads, emailVars, fu, gets, rd, hk, listVars, restVars>>

\* core.py 83-85: the page arrives.
UT_Fetch(m) ==
    /\ ut[m].pc = "fetch"
    /\ \E st \in {"200", "404"} :
         LET r == hyperktty_client_threads(ut[m].ml, st)
         IN  ut' = [ut EXCEPT ![m] =
                 IF r.outcome # "ok"
                 THEN [@ EXCEPT !.pc = "raised", !.err = r.outcome]
                 ELSE [@ EXCEPT !.page = r.page.results, !.k = 1,
                                !.pc = IF r.page.results = <<>> THEN "returned"
                                       ELSE "get"]]
    /\ gets' = gets + 1
    /\ UNCHANGED <<threads, remoteThreads, emailVars, fu, rd, hk, listVars, restVars>>

\* core.py 86-88: the SELECT of Thread.objects.get_or_create(thread_id=...); an
\* existing row is returned as it is stored.
UT_Get(m) ==
    /\ ut[m].pc = "get"
    /\ LET found == Thread_filter(ut[m].page[ut[m].k].thread_id)
       IN  ut' = IF Cardinality(found) > 1
                 THEN [ut EXCEPT ![m].pc = "raised", ![m].err = "MultipleMatches"]
                 ELSE IF found = {}
                 THEN [ut EXCEPT ![m].pc = "create"]
                 ELSE UT_Append(m, CHOOSE j \in found : TRUE)
    /\ UNCHANGED <<threads, remoteThreads, emailVars, fu, gets, rd, hk, listVars, restVars>>

\* core.py 86-88: the INSERT of get_or_create, with defaults=thread.
UT_Create(m) ==
    /\ ut[m].pc = "create"
    /\ threads' = Append(threads, ut[m].page[ut[m].k])
    /\ ut' = UT_Append(m, Len(threads) + 1)
    /\ UNCHANGED <<remoteThreads, emailVars, fu, gets, rd, hk, listVars, restVars>>

\* ------------------------------------------ core.py: threads(), emails()
NoRead == [op |-> "none", arg |-> "none", out |-> <<>>, err |-> "none"]

\* core.py 31-35 and 74-76 with Thread.objects.all() in place of the filter.
TM_threads_unfiltered(L) ==
    /\ rd' = [op |-> "threads", arg |-> L, err |-> "none",
              out |-> [j \in 1..Len(threads) |-> j]]
    /\ UNCHANGED <<emailVars, fu, listVars, threadVars, gets, hk, restVars>>

\* core.py 31-35 and 74-76: threads() on the manager of list L returns
\* Thread.objects.filter(mailinglist=self.ml.url).all(), the matching rows
\* (here their primary keys) as a list.
TM_threads(L) ==
    /\ rd' = [op |-> "threads", arg |-> L, err |-> "none",
              out |-> Indices(threads, LAMBDA j : threads[j].mailinglist = L)]
    /\ UNCHANGED <<emailVars, fu, listVars, threadVars, gets, hk, restVars>>

\* core.py 40-42, 71-72 and models.py 105-106 with a lookup that raises
\* NoMatch when no row matches, as Email.objects.get does.
TM_emails_raises_when_empty(t) ==
    /\ rd' = [op |-> "emails", arg |-> t,
              err |-> IF Email_filter_thread(t) = {} THEN "NoMatch" ELSE "none",
              out |-> Indices(emails, LAMBDA k : emails[k].thread = t)]
    /\ UNCHANGED <<emailVars, fu, listVars, threadVars, gets, hk, restVars>>

\* core.py 40-42, 71-72 and models.py 105-106: emails(thread) returns
\* Email.objects.filter(thread=thread.url).all().
TM_emails(t) ==
    /\ rd' = [op |-> "emails", arg |-> t, err |-> "none",
              out |-> Indices(emails, LAMBDA k : emails[k].thread = t)]
    /\ UNCHANGED <<emailVars, fu, listVars, threadVars, gets, hk, restVars>>

\* ------------------------------------- hyperkitty.py: the remote clients
\* The status codes a GET of the archive's API can be answered with.
ClientStatuses == {"200", "204", "404", "500"}

\* What the archive serves: its lists, the threads of a list, the emails of
\* a thread of a list.
ServerLists == {"A", "B"}

\* The "results" a 200 answer to /api/lists carries: the lists of the
\* archive, or none when the archive has no list yet.
ServerResults == {ServerLists, {}}

ServerThreads(L) == IF L = "A" THEN {"x", "y"} ELSE {"x"}

ServerEmails(L, th) == {<<L, th, "m1">>}

\* A Hyperkitty instance after __init__ (hyperkitty.py 47-51): empty caches.
\* last is the most recent call: the status of its GET ("none" when it made
\* none), whether it returned or raised, and what.
NoClient ==
    [lists_json |-> {}, list_threads |-> <<>>, thread_emails |-> <<>>, n |-> 0,
     last |-> [op |-> "none", status |-> "none", outcome |-> "none",
               kind |-> "none", items |-> {}, err |-> "none"]]

\* hyperkitty.py 53-68: Hyperkitty.lists.
HK_lists ==
    /\ hk.n < MaxClientCalls
    /\ IF hk.lists_json # {}
       THEN /\ hk' = [hk EXCEPT !.n = @ + 1,
                        !.last = [op |-> "lists", status |-> "none",
                                  outcome |-> "return", kind |-> "dict",
                                  items |-> hk.lists_json, err |-> "none"]]
            /\ gets' = gets
       ELSE /\ \E st \in ClientStatuses : \E results \in ServerResults :
                 hk' = IF st = "200"
                       THEN [hk EXCEPT !.n = @ + 1, !.lists_json = results,
                               !.last = [op |-> "lists", status |-> st,
                                         outcome |-> "return", kind |-> "dict",
                                         items |-> results, err |-> "none"]]
                       ELSE [hk EXCEPT !.n = @ + 1,
                               !.last = [op |-> "lists", status |-> st,
                                         outcome |-> "return", kind |-> "dict",
                                         items |-> {}, err |-> "none"]]
            /\ gets' = gets + 1
    /\ UNCHANGED <<emailVars, fu, listVars, threadVars, rd, restVars>>

\* hyperkitty.py 70-79: Hyperkitty.threads(list_id).
HK_threads(list_id) ==
    /\ hk.n < MaxClientCalls
    /\ IF list_id \in DOMAIN hk.list_threads
       THEN /\ hk' = [hk EXCEPT !.n = @ + 1,
                        !.last = [op |-> "threads", status |-> "none",
                                  outcome |-> "return", kind |-> "list",
                                  items |-> hk.list_threads[list_id],
                                  err |-> "none"]]
            /\ gets' = gets
       ELSE IF list_id \notin hk.lists_json
       THEN /\ hk' = [hk EXCEPT !.n = @ + 1,
                        !.last = [op |-> "threads", status |-> "none",
                                  outcome |-> "raise", kind |-> "none",
                                  items |-> {}, err |-> "KeyError"]]
            /\ gets' = gets
       ELSE /\ \E st \in ClientStatuses :
                 hk' = IF st = "200"
                       THEN [hk EXCEPT !.n = @ + 1,
                               !.list_threads = (list_id :> ServerThreads(list_id)) @@ @,
                               !.last = [op |-> "threads", status |-> st,
                                         outcome |-> "return", kind |-> "list",
                                         items |-> ServerThreads(list_id),
                                         err |-> "none"]]
                       ELSE [hk EXCEPT !.n = @ + 1,
                               !.last = [op |-> "threads", status |-> st,
                                         outcome |-> "return", kind |-> "dict",
                                         items |-> {}, err |-> "none"]]
            /\ gets' = gets + 1
    /\ UNCHANGED <<emailVars, fu, listVars, threadVars, rd, restVars>>

\* hyperkitty.py 81-90: Hyperkitty.emails(mlist_id, thread_id); the cache is
\* keyed by thread_id alone.
HK_emails(mlist_id, thread_id) ==
    /\ hk.n < MaxClientCalls
    /\ IF thread_id \in DOMAIN hk.thread_emails
       THEN /\ hk' = [hk EXCEPT !.n = @ + 1,
                        !.last = [op |-> "emails", status |-> "none",
                                  outcome |-> "return", kind |-> "list",
                                  items |-> hk.thread_emails[thread_id],
                                  err |-> "none"]]
            /\ gets' = gets
       ELSE /\ \E st \in ClientStatuses :
                 hk' = IF st = "200"
                       THEN [hk EXCEPT !.n = @ + 1,
                               !.thread_emails =
                                   (thread_id :> ServerEmails(mlist_id, thread_id)) @@ @,
                               !.last = [op |-> "emails", status |-> st,
                                         outcome |-> "return", kind |-> "list",
                                         items |-> ServerEmails(mlist_id, thread_id),
                                         err |-> "none"]]
                       ELSE [hk EXCEPT !.n = @ + 1,
                               !.last = [op |-> "emails", status |-> st,
                                         outcome |-> "return", kind |-> "dict",
                                         items |-> {}, err |-> "none"]]
            /\ gets' = gets + 1
    /\ UNCHANGED <<emailVars, fu, listVars, threadVars, rd, restVars>>

\* hyperkitty.py 15-22: HyperkittyAPI._call(url, schema), the GET behind its
\* lists, threads and emails.  On 200 the page is loaded; otherwise
\* raise_for_status() raises HTTPStatusError for a 4xx or 5xx answer and
\* returns for another 2xx, after which _call falls off its end: None.
API_call(op) ==
    /\ hk.n < MaxClientCalls
    /\ \E st \in ClientStatuses :
         hk' = [hk EXCEPT !.n = @ + 1,
                  !.last =
                     IF st = "200"
                     THEN [op |-> op, status |-> st, outcome |-> "return",
                           kind |-> "page", items |-> ServerLists, err |-> "none"]
                     ELSE IF st \in {"404", "500"}
                     THEN [op |-> op, status |-> st, outcome |-> "raise",
                           kind |-> "none", items |-> {}, err |-> "HTTPStatusError"]
                     ELSE [op |-> op, status |-> st, outcome |-> "return",
                           kind |-> "None", items |-> {}, err |-> "none"]]
    /\ gets' = gets + 1
    /\ UNCHANGED <<emailVars, fu, listVars, threadVars, rd, restVars>>

\* ------------------------------------- hyperkitty.py: a fetch_urls call
\* The responses a batch of client.get calls can end with.
Responses ==
    {[url |-> u, status_code |-> st, json |-> EmailJson(u)] :
        u \in {"u1", "u2"}, st \in Statuses}

Loggers == {"None", "log"}

\* hyperkitty.py 94-110: the call returns or raises.
FU_Return ==
    /\ fu.pc = "called"
    /\ fu' = [fu EXCEPT !.pc = "done", !.out = fetch_urls(fu.results, fu.logger)]
    /\ gets' = gets + Len(fu.results)
    /\ UNCHANGED <<emailVars, listVars, threadVars, rd, hk, restVars>>

\* ------------------------------------------------- app.py: ArchiveApp
\* A Python dict with string keys is the function from its keys.
EmptyDict == [k \in {} |-> <<>>]

DictSet(d, k, v) == [x \in DOMAIN d \cup {k} |-> IF x = k THEN v ELSE d[x]]

\* A dict of threads, thread_id -> thread data, is the sequence of its values
\* in insertion order.
Ids(m) == {m[i].thread_id : i \in DOMAIN m}

IndexOf(m, id) == CHOOSE i \in DOMAIN m : m[i].thread_id = id

\* The names of the mailing lists shown in the sidebar (MailingList.name).
ListNames == ListURLs

\* storage.py 12-25, app.py 463 and 510: the cache key f'{name}_threads'.
threads_key(name) == <<name, "_threads">>

\* date_active of a thread of the archive: the date of its latest message.
date_active(thread_id, replies_count) ==
    (IF thread_id = "x" THEN 1 ELSE 2) + 2 * replies_count

\* The threads of the page of list L keyed by thread_id (app.py 600-602), as
\* ThreadSchema loads them.  A thread dict without the keys 'is_new' and
\* 'has_new' reads as False and 0 (app.py 335-336).
PageThreads(L) ==
    LET results == ThreadsPage(L).results
    IN  [n \in 1..Len(results) |->
            [thread_id |-> results[n].thread_id,
             replies_count |-> results[n].replies_count,
             date_active |-> date_active(results[n].thread_id,
                                         results[n].replies_count),
             is_new |-> FALSE, has_new |-> 0]]

\* app.py 408-410: _existing_threads = defaultdict(dict).  lists holds the
\* entries keyed by a list name; ml tells whether the key 'ml' is present.
\* What is stored under 'ml' is a value read from the cache, which no
\* statement of the app looks into.
NoThreads == [lists |-> EmptyDict, ml |-> FALSE]

\* A value the cache holds under a threads key: a dict whose keys are thread
\* ids (threads), list names (lists) or 'ml'.
NoValue == [threads |-> <<>>, lists |-> EmptyDict, ml |-> FALSE]

\* storage.py 19-25: cache_get(key, default).
cache_get(key, default) == IF key \in DOMAIN cache THEN cache[key] ELSE default

\* storage.py 12-16: cache_set(key, value) on the cache c.
cache_set(c, key, value) == DictSet(c, key, value)

\* bool(value) of a cached dict.
Truthy(value) ==
    value.threads # <<>> \/ DOMAIN value.lists # {} \/ value.ml

\* self._existing_threads[name] on the defaultdict e: the entry, made empty
\* when it is missing.
Touch(e, name) ==
    IF name \in DOMAIN e.lists THEN e ELSE [e EXCEPT !.lists = DictSet(@, name, <<>>)]

Workers == 1..MaxWorkers

NoWorker == [pc |-> "none", ml |-> "none", err |-> "none"]

\* storage.py 19-25, 7: no value is stored under SUBSCRIBED_ML before the
\* first cache_set; cache_get then returns its default.
NoSubscribed == [present |-> FALSE, names |-> <<>>]

\* screens.py 38-41: no ThreadReadScreen is mounted.
NoScreen ==
    [pc |-> "none", thread |-> "none", replies_count |-> 0, loading |-> FALSE,
     reply_objs |-> <<>>, view |-> <<>>, stored_replies |-> 0, call |-> 0]

InitApp ==
    /\ existing_threads = NoThreads
    /\ cache = EmptyDict
    /\ current_mailinglist = "none"
    /\ threads_view = <<>>
    /\ loading = FALSE
    /\ workers = [w \in Workers |-> NoWorker]
    /\ updated = <<>>
    /\ subscribed = NoSubscribed
    /\ screen = NoScreen

\* app.py 481-506: _refresh_threads_view on the view v: one Thread widget per
\* thread of the current list's entry of e, but for an id already shown.  A
\* widget takes is_new and has_new from its thread data (app.py 329-336); the
\* data itself is the dict e holds for the thread.
refresh_threads_view(v, e, ml) ==
    LET ts    == IF ml \in DOMAIN e.lists THEN e.lists[ml] ELSE <<>>
        shown == {v[i].thread_id : i \in DOMAIN v}
        added == SelectSeq(ts, LAMBDA t : t.thread_id \notin shown)
    IN  v \o [n \in 1..Len(added) |->
                [thread_id |-> added[n].thread_id, mailinglist |-> ml,
                 is_new |-> added[n].is_new, has_new |-> added[n].has_new,
                 read |-> FALSE]]

\* app.py 551-558: sorted(items, key=date_active, reverse=True), a stable sort.
RECURSIVE sorted_by_date_active(_)
sorted_by_date_active(m) ==
    IF m = <<>> THEN <<>>
    ELSE LET top  == CHOOSE i \in DOMAIN m :
                        /\ \A j \in DOMAIN m : m[j].date_active <= m[i].date_active
                        /\ \A j \in 1..i - 1 : m[j].date_active < m[i].date_active
             rest == [n \in 1..Len(m) - 1 |-> IF n < top THEN m[n] ELSE m[n + 1]]
         IN  <<m[top]>> \o sorted_by_date_active(rest)

\* _load_new_threads with has_new set to the remote count instead of the
\* difference.
load_thread_no_delta(current_ml_threads, thread) ==
    IF thread.thread_id \notin Ids(current_ml_threads)
    THEN Append(current_ml_threads, [thread EXCEPT !.is_new = TRUE])
    ELSE LET n == IndexOf(current_ml_threads, thread.thread_id)
         IN  IF thread.replies_count > current_ml_threads[n].replies_count
             THEN [current_ml_threads EXCEPT ![n] =
                     [@ EXCEPT !.has_new = thread.replies_count,
                               !.replies_count = thread.replies_count]]
             ELSE current_ml_threads

\* app.py 527-549: one turn of the loop of _load_new_threads.
load_thread(current_ml_threads, thread) ==
    IF thread.thread_id \notin Ids(current_ml_threads)
    THEN Append(current_ml_threads, [thread EXCEPT !.is_new = TRUE])
    ELSE LET n == IndexOf(current_ml_threads, thread.thread_id)
         IN  IF thread.replies_count > current_ml_threads[n].replies_count
             THEN [current_ml_threads EXCEPT ![n] =
                     [@ EXCEPT !.has_new = thread.replies_count
                                            - current_ml_threads[n].replies_count,
                               !.replies_count = thread.replies_count]]
             ELSE current_ml_threads

\* app.py 527-549: the loop over the page.
RECURSIVE load_threads(_, _)
load_threads(current_ml_threads, page) ==
    IF page = <<>> THEN current_ml_threads
    ELSE load_threads(load_thread(current_ml_threads, Head(page)), Tail(page))

\* app.py 408-410, 424-426: the app is started: a new ArchiveApp over the
\* cache directory the earlier sessions left.
App_start ==
    /\ current_mailinglist # "none"
    /\ existing_threads' = NoThreads
    /\ current_mailinglist' = "none"
    /\ threads_view' = <<>>
    /\ loading' = FALSE
    /\ workers' = [w \in Workers |-> NoWorker]
    /\ updated' = <<>>
    /\ UNCHANGED <<cache, uiVars, fl, emailVars, fu, listVars, threadVars, gets, rd, hk>>

\* app.py 611-617: a MailingList of the sidebar is selected; update_threads
\* starts as a worker and runs to its first await (app.py 590-593).
on_list_view_selected(L) ==
    /\ updated = <<>>
    /\ \E w \in Workers :
          /\ workers[w].pc = "none"
          /\ \A v \in 1..w - 1 : workers[v].pc # "none"
          /\ workers' = [workers EXCEPT ![w] =
                            [pc |-> "clear", ml |-> L, err |-> "none"]]
    /\ current_mailinglist' = L
    /\ UNCHANGED <<existing_threads, cache, threads_view, loading,
                   updated, uiVars, fl, emailVars, fu, listVars, threadVars, gets, rd, hk>>

\* app.py 593-601, 461-479: the view is cleared and update_threads goes on:
\* the loading indicator is shown and _load_saved_threads(ml.name) reads the
\* cache; what it finds goes under the key 'ml' (476) and the view is
\* refreshed.  Then hk.threads(ml._data) (598) runs HyperkittyAPI.threads
\* (hyperkitty.py 28-30) on the dict a MailingList holds: ml.threads raises
\* AttributeError, and the worker ends there.  The call suspends once more
\* only when _refresh_threads_view has a widget to append (488, 506).
UT_worker_load(w) ==
    /\ workers[w].pc = "clear"
    /\ LET ml       == workers[w].ml
           existing == cache_get(threads_key(ml), NoValue)
           ts       == IF current_mailinglist \in DOMAIN existing_threads.lists
                       THEN existing_threads.lists[current_mailinglist] ELSE <<>>
       IN  IF ~Truthy(existing)
           THEN /\ loading' = TRUE
                /\ workers' = [workers EXCEPT ![w].pc = "error",
                                              ![w].err = "AttributeError"]
                /\ UNCHANGED existing_threads
           ELSE /\ existing_threads' = [existing_threads EXCEPT !.ml = TRUE]
                /\ IF ts = <<>>
                   THEN /\ loading' = FALSE
                        /\ workers' = [workers EXCEPT ![w].pc = "error",
                                                      ![w].err = "AttributeError"]
                   ELSE /\ loading' = TRUE
                        /\ workers' = [workers EXCEPT ![w].pc = "refresh"]
    /\ threads_view' = <<>>
    /\ UNCHANGED <<cache, current_mailinglist,
                   updated, uiVars, fl, emailVars, fu, listVars, threadVars, gets, rd, hk>>

\* app.py 481-489, 477-479, 598: the widgets are appended, the indicator is
\* hidden, and hk.threads(ml._data) raises.
UT_worker_refresh(w) ==
    /\ workers[w].pc = "refresh"
    /\ threads_view' = refresh_threads_view(threads_view, existing_threads,
                                            current_mailinglist)
    /\ loading' = FALSE
    /\ workers' = [workers EXCEPT ![w].pc = "error", ![w].err = "AttributeError"]
    /\ UNCHANGED <<existing_threads, cache, current_mailinglist,
                   updated, uiVars, fl, emailVars, fu, listVars, threadVars, gets, rd, hk>>

\* app.py 523-563: _load_new_threads(threads) with the threads of a page:
\* the entry of the current list is updated, sorted and shown.
App_load_new_threads(page) ==
    /\ updated = <<>>
    /\ current_mailinglist # "none"
    /\ LET ml  == current_mailinglist
           cur == Touch(existing_threads, ml).lists[ml]
           new == sorted_by_date_active(load_threads(cur, page))
           e   == [existing_threads EXCEPT !.lists = DictSet(@, ml, new)]
       IN  /\ existing_threads' = e
           /\ threads_view' = refresh_threads_view(<<>>, e, ml)
    /\ UNCHANGED <<cache, current_mailinglist, loading, workers,
                   updated, uiVars, fl, emailVars, fu, listVars, threadVars, gets, rd, hk>>

\* app.py 508-521: _save_threads().  With nothing cached the threads of the
\* current list are stored first (514); then the whole of _existing_threads
\* is merged into the cached dict (518) and the result is stored (520).
App_save_threads ==
    /\ updated = <<>>
    /\ current_mailinglist # "none"
    /\ LET ml     == current_mailinglist
           key    == threads_key(ml)
           cached == cache_get(key, NoValue)
           e      == IF Truthy(cached) THEN existing_threads
                     ELSE Touch(existing_threads, ml)
           first  == IF Truthy(cached) THEN cache
                     ELSE cache_set(cache, key,
                                    [NoValue EXCEPT !.threads = e.lists[ml]])
           merged == [cached EXCEPT
                        !.lists = [n \in DOMAIN cached.lists \cup DOMAIN e.lists |->
                                      IF n \in DOMAIN e.lists THEN e.lists[n]
                                      ELSE cached.lists[n]],
                        !.ml = cached.ml \/ e.ml]
       IN  /\ existing_threads' = e
           /\ cache' = cache_set(first, key, merged)
    /\ UNCHANGED <<current_mailinglist, threads_view, loading, workers,
                   updated, uiVars, fl, emailVars, fu, listVars, threadVars, gets, rd, hk>>

\* app.py 347-358: Thread.watch_read(False, True) on the thread data d.
watch_read(d) == [d EXCEPT !.is_new = FALSE, !.has_new = 0]

\* on_list_view_selected for a Thread without workers.cancel_all().
on_list_view_selected_thread_no_cancel(i) ==
    /\ updated = <<>>
    /\ i \in DOMAIN threads_view
    /\ LET widget == threads_view[i]
           L      == widget.mailinglist
           n      == IndexOf(existing_threads.lists[L], widget.thread_id)
       IN  IF widget.read
           THEN UNCHANGED <<threads_view, existing_threads, updated>>
           ELSE /\ threads_view' = [threads_view EXCEPT ![i] =
                      [@ EXCEPT !.read = TRUE, !.is_new = FALSE, !.has_new = 0]]
                /\ existing_threads' =
                      [existing_threads EXCEPT !.lists[L][n] = watch_read(@)]
                /\ updated' = Append(updated,
                      [thread_id |-> widget.thread_id, mailinglist |-> L])
    /\ UNCHANGED <<cache, current_mailinglist, loading, workers,
                   uiVars, fl, emailVars, fu, listVars, threadVars, gets, rd, hk>>

\* app.py 618-625, 347-358: the Thread widget at place i of the view is
\* selected.  read becomes True; when it was False, watch_read clears is_new
\* and has_new in the widget and in its data, the dict _existing_threads
\* holds for the thread, and posts Thread.Updated with that data.  Then
\* workers.cancel_all() cancels every worker still running, and the thread
\* screen is pushed.
on_list_view_selected_thread(i) ==
    /\ updated = <<>>
    /\ i \in DOMAIN threads_view
    /\ LET widget == threads_view[i]
           L      == widget.mailinglist
           n      == IndexOf(existing_threads.lists[L], widget.thread_id)
       IN  IF widget.read
           THEN UNCHANGED <<threads_view, existing_threads, updated>>
           ELSE /\ threads_view' = [threads_view EXCEPT ![i] =
                      [@ EXCEPT !.read = TRUE, !.is_new = FALSE, !.has_new = 0]]
                /\ existing_threads' =
                      [existing_threads EXCEPT !.lists[L][n] = watch_read(@)]
                /\ updated' = Append(updated,
                      [thread_id |-> widget.thread_id, mailinglist |-> L])
    /\ workers' = [w \in Workers |->
                      IF workers[w].pc \in {"clear", "refresh"}
                      THEN [workers[w] EXCEPT !.pc = "cancelled"]
                      ELSE workers[w]]
    /\ UNCHANGED <<cache, current_mailinglist, loading,
                   uiVars, fl, emailVars, fu, listVars, threadVars, gets, rd, hk>>

\* app.py 627-630: on_thread_updated(item) handles the oldest message:
\* item.data, the dict the widget was made of, is put under its thread_id in
\* the entry of the current list.
on_thread_updated ==
    /\ updated # <<>>
    /\ LET item == Head(updated)
           data == existing_threads.lists[item.mailinglist][
                      IndexOf(existing_threads.lists[item.mailinglist],
                              item.thread_id)]
           ml   == current_mailinglist
           cur  == Touch(existing_threads, ml).lists[ml]
           new  == IF item.thread_id \in Ids(cur)
                   THEN [cur EXCEPT ![IndexOf(cur, item.thread_id)] = data]
                   ELSE Append(cur, data)
       IN  existing_threads' = [existing_threads EXCEPT !.lists = DictSet(@, ml, new)]
    /\ updated' = Tail(updated)
    /\ UNCHANGED <<cache, current_mailinglist, threads_view, loading, workers,
                   uiVars, fl, emailVars, fu, listVars, threadVars, gets, rd, hk>>

\* --------------------------------------------------------- specification
NoFetch == [pc |-> "none", results |-> <<>>, logger |-> "None",
            out |-> [outcome |-> "none", success |-> <<>>, failed |-> <<>>]]

InitStore ==
    /\ remote = [t \in ThreadURLs |-> <<>>]
    /\ senders = <<>>
    /\ emails = <<>>
    /\ ue = [c \in Calls |-> NoCall]
    /\ bodyGets = [u \in EmailURLs |-> 0]
    /\ staleGets = {}
    /\ mailinglists = <<>>
    /\ sl = [c \in SubCalls |-> NoSubscribe]
    /\ threads = <<>>
    /\ remoteThreads = [th \in RemoteThreadKeys |-> 0]
    /\ ut = [c \in ThreadCalls |-> NoUpdate]
    /\ gets = 0
    /\ rd = NoRead
    /\ hk = NoClient
    /\ fl = NoDiscovery
    /\ InitApp

Init == InitStore /\ fu = NoFetch

Next ==
    \/ \E t \in ThreadURLs : \E u \in Range(ItemOrder(t)) : RemoteAppend(t, u)
    \/ \E c \in Calls : \E t \in ThreadURLs : UE_Call(c, t)
    \/ \E c \in Calls : UE_FetchUrlList(c)
    \/ \E c \in Calls : UE_FilterExisting(c)
    \/ \E c \in Calls : UE_FetchBodies(c)
    \/ \E c \in Calls : \E i \in 1..MaxListing : Create_SenderGet(c, i)
    \/ \E c \in Calls : \E i \in 1..MaxListing : Create_SenderInsert(c, i)
    \/ \E c \in Calls : \E i \in 1..MaxListing : Create_SenderRecover(c, i)
    \/ \E c \in Calls : \E i \in 1..MaxListing : Create_EmailGet(c, i)
    \/ \E c \in Calls : \E i \in 1..MaxListing : Create_EmailInsert(c, i)
    \/ \E c \in Calls : UE_Return(c)

\* update_emails calls, in flight together or one after the other, against a
\* remote collection that lists each email once.
Spec == Init /\ [][Next]_vars

\* The same, against a remote collection that may list an item twice.
NextRepeats ==
    \/ Next
    \/ \E t \in ThreadURLs : \E u \in Range(ItemOrder(t)) : RemoteRepeat(t, u)

SpecRepeats == Init /\ [][NextRepeats]_vars

\* update_emails calls made one after the other; the tasks of one batch still
\* run together under asyncio.gather.
NoCallInFlight ==
    \A c \in Calls : ue[c].pc \in {"idle", "returned", "raised", "cancelled"}

NextSeq ==
    \/ \E t \in ThreadURLs : \E u \in Range(ItemOrder(t)) : RemoteAppend(t, u)
    \/ \E c \in Calls : \E t \in ThreadURLs : NoCallInFlight /\ UE_Call(c, t)
    \/ \E c \in Calls : UE_FetchUrlList(c)
    \/ \E c \in Calls : UE_FilterExisting(c)
    \/ \E c \in Calls : UE_FetchBodies(c)
    \/ \E c \in Calls : \E i \in 1..MaxListing : Create_SenderGet(c, i)
    \/ \E c \in Calls : \E i \in 1..MaxListing : Create_SenderInsert(c, i)
    \/ \E c \in Calls : \E i \in 1..MaxListing : Create_SenderRecover(c, i)
    \/ \E c \in Calls : \E i \in 1..MaxListing : Create_EmailGet(c, i)
    \/ \E c \in Calls : \E i \in 1..MaxListing : Create_EmailInsert(c, i)
    \/ \E c \in Calls : UE_Return(c)

SpecSeq == Init /\ [][NextSeq]_vars

\* The store a new session finds: empty, or as an earlier session left it
\* after update_emails(t1) stored the first email of thread t1.
InitCancel ==
    \/ Init
    \/ /\ remote = [t \in ThreadURLs |-> IF t = "t1" THEN <<"u1">> ELSE <<>>]
       /\ senders = <<[mailman_id |-> "s1"]>>
       /\ emails = <<[url |-> "u1", message_id_hash |-> "h1", thread |-> "t1",
                      sender |-> 1]>>
       /\ bodyGets = [u \in EmailURLs |-> IF u = "u1" THEN 1 ELSE 0]
       /\ ue = [c \in Calls |-> NoCall]
       /\ staleGets = {}
       /\ mailinglists = <<>>
       /\ sl = [c \in SubCalls |-> NoSubscribe]
       /\ threads = <<>>
       /\ remoteThreads = [th \in RemoteThreadKeys |-> 0]
       /\ ut = [c \in ThreadCalls |-> NoUpdate]
       /\ fu = NoFetch
       /\ gets = 2
       /\ rd = NoRead
       /\ hk = NoClient
       /\ fl = NoDiscovery
       /\ InitApp

\* update_emails calls made one after the other, call c + 1 after call c, each
\* of which may be cancelled at any of its suspension points.
NextCancel ==
    \/ \E t \in ThreadURLs : \E u \in Range(ItemOrder(t)) : RemoteAppend(t, u)
    \/ \E c \in Calls : \E t \in ThreadURLs :
          /\ NoCallInFlight
          /\ \A b \in Calls : b < c => ue[b].pc # "idle"
          /\ UE_Call(c, t)
    \/ \E c \in Calls : UE_FetchUrlList(c)
    \/ \E c \in Calls : UE_FilterExisting(c)
    \/ \E c \in Calls : UE_FetchBodies(c)
    \/ \E c \in Calls : \E i \in 1..MaxListing : Create_SenderGet(c, i)
    \/ \E c \in Calls : \E i \in 1..MaxListing : Create_SenderInsert(c, i)
    \/ \E c \in Calls : \E i \in 1..MaxListing : Create_SenderRecover(c, i)
    \/ \E c \in Calls : \E i \in 1..MaxListing : Create_EmailGet(c, i)
    \/ \E c \in Calls : \E i \in 1..MaxListing : Create_EmailInsert(c, i)
    \/ \E c \in Calls : UE_Return(c)
    \/ \E c \in Calls : UE_Cancel(c)

SpecCancel == InitCancel /\ [][NextCancel]_vars

\* Calls on the remote clients, in any order.
NextClient ==
    \/ HK_lists
    \/ \E L \in ServerLists : HK_threads(L)
    \/ \E L \in ServerLists : \E th \in ServerThreads(L) : HK_emails(L, th)
    \/ \E op \in {"api_lists", "api_threads", "api_emails"} : API_call(op)

SpecClient == Init /\ [][NextClient]_vars

\* No update_threads worker is suspended.
NoWorkerInFlight == \A w \in Workers : workers[w].pc \notin {"clear", "refresh"}

\* A session of the app after another over one cache directory, one thing at
\* a time: a list is selected and its update_threads worker runs to its end;
\* _load_new_threads is called on the page of the selected list and
\* _save_threads after it; thread x of list A receives replies.
NextSync ==
    \/ NoWorkerInFlight /\ RemoteReply(<<"A", "x">>)
    \/ NoWorkerInFlight /\ App_start
    \/ \E L \in ListNames : NoWorkerInFlight /\ on_list_view_selected(L)
    \/ \E w \in Workers : UT_worker_load(w)
    \/ \E w \in Workers : UT_worker_refresh(w)
    \/ NoWorkerInFlight /\ App_load_new_threads(PageThreads(current_mailinglist))
    \/ NoWorkerInFlight /\ App_save_threads

SpecSync == Init /\ [][NextSync]_vars

\* The same with the workers of several selections in flight together,
\* against an archive that receives no reply.
NextApp ==
    \/ App_start
    \/ \E L \in ListNames : on_list_view_selected(L)
    \/ \E w \in Workers : UT_worker_load(w)
    \/ \E w \in Workers : UT_worker_refresh(w)
    \/ App_load_new_threads(PageThreads(current_mailinglist))
    \/ App_save_threads

SpecApp == Init /\ [][NextApp]_vars

\* Sessions of the app on list A, one thing at a time, in which the threads
\* shown are also opened: a Thread of the view is selected and the
\* Thread.Updated message it posts is handled.
NextRead ==
    \/ NoWorkerInFlight /\ RemoteReply(<<"A", "x">>)
    \/ NoWorkerInFlight /\ App_start
    \/ NoWorkerInFlight /\ on_list_view_selected("A")
    \/ \E w \in Workers : UT_worker_load(w)
    \/ \E w \in Workers : UT_worker_refresh(w)
    \/ NoWorkerInFlight /\ App_load_new_threads(PageThreads(current_mailinglist))
    \/ NoWorkerInFlight /\ App_save_threads
    \/ \E i \in DOMAIN threads_view :
          NoWorkerInFlight /\ on_list_view_selected_thread(i)
    \/ on_thread_updated

SpecRead == Init /\ [][NextRead]_vars

\* One session on list A, against an archive that receives no reply, in
\* which a Thread is selected while update_threads workers are in flight.
NextCancelAll ==
    \/ on_list_view_selected("A")
    \/ \E w \in Workers : UT_worker_load(w)
    \/ \E w \in Workers : UT_worker_refresh(w)
    \/ App_load_new_threads(PageThreads(current_mailinglist))
    \/ App_save_threads
    \/ \E i \in DOMAIN threads_view : on_list_view_selected_thread(i)
    \/ on_thread_updated

SpecCancelAll == Init /\ [][NextCancelAll]_vars

\* app.py 429, storage.py 19-25: cache_get(SUBSCRIBED_ML, []).
stored_subscribed == IF subscribed.present THEN subscribed.names ELSE <<>>

add_subscribed_always(stored, each) ==
    Append(stored, each)

\* app.py 431-432: one turn of the loop: a name not yet in stored is
\* appended to it.
add_subscribed(stored, each) ==
    IF each \in Range(stored) THEN stored ELSE Append(stored, each)

\* app.py 429-432: the value _store_subscribed_lists(lists) hands to
\* cache_set when stored is what cache_get returned.
RECURSIVE store_subscribed_lists(_, _)
store_subscribed_lists(stored, lists) ==
    IF lists = <<>>
    THEN stored
    ELSE store_subscribed_lists(add_subscribed(stored, Head(lists)), Tail(lists))

\* the arguments of _store_subscribed_lists: lists of names
StoreInputs == SeqsUpTo(ListNames, MaxStoreLen)

\* app.py 428-433: _store_subscribed_lists(lists); cache_set (storage.py
\* 12-16) replaces the value under SUBSCRIBED_ML.
App_store_subscribed_lists(lists) ==
    /\ subscribed' = [present |-> TRUE,
                      names |-> store_subscribed_lists(stored_subscribed, lists)]
    /\ UNCHANGED <<screen, appVars, fl, emailVars, fu, listVars, threadVars,
                   gets, rd, hk>>

\* One session after another over the same disk cache, lists being
\* subscribed between the steps of the thread syncs.
NextSubscribed ==
    \/ \E lists \in StoreInputs : App_store_subscribed_lists(lists)
    \/ NoWorkerInFlight /\ App_start
    \/ \E L \in ListNames : NoWorkerInFlight /\ on_list_view_selected(L)
    \/ \E w \in Workers : UT_worker_load(w)
    \/ \E w \in Workers : UT_worker_refresh(w)
    \/ NoWorkerInFlight /\ App_load_new_threads(PageThreads(current_mailinglist))
    \/ NoWorkerInFlight /\ App_save_threads

SpecSubscribed == Init /\ [][NextSubscribed]_vars

\* what the actions of the thread reading screen leave alone
othersOfScreen ==
    <<remote, senders, emails, bodyGets, staleGets, fu, listVars, threadVars,
      hk, fl, appVars, subscribed>>

\* screens.py 53-61, 65-73: ThreadReadScreen.on_mount for a thread whose row
\* holds replies_count: the load_stored_emails worker is started, shows the
\* indicator and waits for thread_mgr.emails; on_mount waits for the worker.
TRS_on_mount(t, replies_count) ==
    /\ screen.pc = "none"
    /\ screen' = [NoScreen EXCEPT !.pc = "load", !.thread = t,
                                  !.replies_count = replies_count,
                                  !.loading = TRUE]
    /\ UNCHANGED <<ue, gets, rd, othersOfScreen>>

\* screens.py 74, core.py 40-42: thread_mgr.emails(self.thread) answers with
\* the stored emails of the thread.
TRS_load_stored_emails ==
    /\ screen.pc = "load"
    /\ LET out == Indices(emails, LAMBDA k : emails[k].thread = screen.thread)
       IN  /\ rd' = [op |-> "emails", arg |-> screen.thread, err |-> "none",
                     out |-> out]
           /\ screen' = [screen EXCEPT !.pc = "add", !.reply_objs = out]
    /\ UNCHANGED <<ue, gets, othersOfScreen>>

\* screens.py 75-86: the stored emails are added to the view, the indicator
\* is hidden and the worker returns their number.
TRS_show_stored_emails ==
    /\ screen.pc = "add"
    /\ screen' = [screen EXCEPT !.pc = "loaded",
                                !.view = @ \o screen.reply_objs,
                                !.loading = FALSE,
                                !.stored_replies = Len(screen.reply_objs)]
    /\ UNCHANGED <<ue, gets, rd, othersOfScreen>>

TRS_on_mount_resume_always_updates ==
    /\ screen.pc = "loaded"
    /\ \E c \in Calls :
          /\ ue[c].pc = "idle"
          /\ \A b \in 1..c - 1 : ue[b].pc # "idle"
          /\ ue' = [ue EXCEPT ![c] = [NoCall EXCEPT !.pc = "fetch_list",
                                                    !.thread = screen.thread]]
          /\ screen' = [screen EXCEPT !.pc = "update", !.call = c]
    /\ UNCHANGED <<gets, rd, othersOfScreen>>

\* screens.py 61-63, 88-95: on_mount resumes with the worker's result and
\* starts action_update_emails when fewer emails are stored than
\* replies_count + 1; its worker calls thread_mgr.update_emails(self.thread).
TRS_on_mount_resume ==
    /\ screen.pc = "loaded"
    /\ IF screen.stored_replies < screen.replies_count + 1
       THEN \E c \in Calls :
               /\ ue[c].pc = "idle"
               /\ \A b \in 1..c - 1 : ue[b].pc # "idle"
               /\ ue' = [ue EXCEPT ![c] = [NoCall EXCEPT !.pc = "fetch_list",
                                                         !.thread = screen.thread]]
               /\ screen' = [screen EXCEPT !.pc = "update", !.call = c]
       ELSE /\ screen' = [screen EXCEPT !.pc = "mounted"]
            /\ ue' = ue
    /\ UNCHANGED <<gets, rd, othersOfScreen>>

\* screens.py 95-104: update_emails has returned the emails it created:
\* they are added to the view.
TRS_show_new_emails ==
    /\ screen.pc = "update"
    /\ ue[screen.call].pc = "returned"
    /\ screen' = [screen EXCEPT !.pc = "mounted",
                                !.view = @ \o ue[screen.call].result]
    /\ UNCHANGED <<ue, gets, rd, othersOfScreen>>

\* screens.py 88-95: update_emails has raised: the worker fails and adds
\* nothing to the view.
TRS_update_failed ==
    /\ screen.pc = "update"
    /\ ue[screen.call].pc = "raised"
    /\ screen' = [screen EXCEPT !.pc = "failed"]
    /\ UNCHANGED <<ue, gets, rd, othersOfScreen>>

\* screens.py 34-37: the screen is closed (escape), or went with the app.
TRS_close ==
    /\ screen.pc \in {"mounted", "failed"}
    /\ screen' = NoScreen
    /\ UNCHANGED <<ue, gets, rd, othersOfScreen>>

\* Threads opened in the reading screen one after another, the archive
\* growing while no update is in flight.
NextMount ==
    \/ \E t \in ThreadURLs : \E u \in Range(ItemOrder(t)) :
          NoCallInFlight /\ RemoteAppend(t, u)
    \/ \E t \in ThreadURLs : \E n \in 0..MaxListing : TRS_on_mount(t, n)
    \/ TRS_load_stored_emails
    \/ TRS_show_stored_emails
    \/ TRS_on_mount_resume
    \/ TRS_show_new_emails
    \/ TRS_update_failed
    \/ TRS_close
    \/ \E c \in Calls : UE_FetchUrlList(c)
    \/ \E c \in Calls : UE_FilterExisting(c)
    \/ \E c \in Calls : UE_FetchBodies(c)
    \/ \E c \in Calls : \E i \in 1..MaxListing : Create_SenderGet(c, i)
    \/ \E c \in Calls : \E i \in 1..MaxListing : Create_SenderInsert(c, i)
    \/ \E c \in Calls : \E i \in 1..MaxListing : Create_SenderRecover(c, i)
    \/ \E c \in Calls : \E i \in 1..MaxListing : Create_EmailGet(c, i)
    \/ \E c \in Calls : \E i \in 1..MaxListing : Create_EmailInsert(c, i)
    \/ \E c \in Calls : UE_Return(c)

SpecMount == Init /\ [][NextMount]_vars

\* One fetch_urls call on every batch of at most MaxBatch responses, with and
\* without a logger.
InitFetch ==
    /\ InitStore
    /\ fu \in {[NoFetch EXCEPT !.pc = "called", !.results = r, !.logger = l] :
                  r \in SeqsUpTo(Responses, MaxBatch), l \in Loggers}

SpecFetch == InitFetch /\ [][FU_Return]_vars

\* subscribe_lists calls made one after the other.
NoSubscribeInFlight == \A s \in SubCalls : sl[s].pc \in {"idle", "returned", "raised"}

NextListsSeq ==
    \/ \E s \in SubCalls : \E lists \in SeqsUpTo(ListRecords, MaxSubscribe) :
          NoSubscribeInFlight /\ SL_Call(s, lists)
    \/ \E s \in SubCalls : SL_Get(s)
    \/ \E s \in SubCalls : SL_Create(s)

SpecListsSeq == Init /\ [][NextListsSeq]_vars

\* The mailinglist table under concurrent subscribe_lists calls.
NextLists ==
    \/ \E s \in SubCalls : \E lists \in SeqsUpTo(ListRecords, MaxSubscribe) :
          SL_Call(s, lists)
    \/ \E s \in SubCalls : SL_Get(s)
    \/ \E s \in SubCalls : SL_Create(s)

SpecLists == Init /\ [][NextLists]_vars

\* Discovery, subscription and the list of subscribed lists, in any order.
NextDiscover ==
    \/ \E srv \in ServerURLs : LM_fetch_lists(srv)
    \/ LM_lists
    \/ \E s \in SubCalls : \E lists \in SeqsUpTo(ListRecords, MaxSubscribe) :
          SL_Call(s, lists)
    \/ \E s \in SubCalls : SL_Get(s)
    \/ \E s \in SubCalls : SL_Create(s)

SpecDiscover == Init /\ [][NextDiscover]_vars

\* The thread table under concurrent update_threads calls.
NextThreads ==
    \/ \E th \in RemoteThreadKeys : RemoteReply(th)
    \/ \E m \in ThreadCalls : \E L \in ListURLs : UT_Call(m, L)
    \/ \E m \in ThreadCalls : UT_Fetch(m)
    \/ \E m \in ThreadCalls : UT_Get(m)
    \/ \E m \in ThreadCalls : UT_Create(m)

SpecThreads == Init /\ [][NextThreads]_vars

\* update_threads calls made one after the other.
NoUpdateInFlight == \A m \in ThreadCalls : ut[m].pc \in {"idle", "returned", "raised"}

NextThreadsSeq ==
    \/ \E th \in RemoteThreadKeys : RemoteReply(th)
    \/ \E m \in ThreadCalls : \E L \in ListURLs : NoUpdateInFlight /\ UT_Call(m, L)
    \/ \E m \in ThreadCalls : UT_Fetch(m)
    \/ \E m \in ThreadCalls : UT_Get(m)
    \/ \E m \in ThreadCalls : UT_Create(m)

SpecThreadsSeq == Init /\ [][NextThreadsSeq]_vars

\* The manager operations of the presentation layer, one update at a time and
\* call c + 1 after call c, with reads of the store at any moment.
NextReads ==
    \/ \E t \in ThreadURLs : \E u \in Range(ItemOrder(t)) : RemoteAppend(t, u)
    \/ \E c \in Calls : \E t \in ThreadURLs :
          /\ NoCallInFlight /\ NoUpdateInFlight
          /\ \A b \in Calls : b < c => ue[b].pc # "idle"
          /\ UE_Call(c, t)
    \/ \E c \in Calls : UE_FetchUrlList(c)
    \/ \E c \in Calls : UE_FilterExisting(c)
    \/ \E c \in Calls : UE_FetchBodies(c)
    \/ \E c \in Calls : \E i \in 1..MaxListing : Create_SenderGet(c, i)
    \/ \E c \in Calls : \E i \in 1..MaxListing : Create_SenderInsert(c, i)
    \/ \E c \in Calls : \E i \in 1..MaxListing : Create_SenderRecover(c, i)
    \/ \E c \in Calls : \E i \in 1..MaxListing : Create_EmailGet(c, i)
    \/ \E c \in Calls : \E i \in 1..MaxListing : Create_EmailInsert(c, i)
    \/ \E c \in Calls : UE_Return(c)
    \/ \E m \in ThreadCalls : \E L \in ListURLs :
          /\ NoCallInFlight /\ NoUpdateInFlight
          /\ \A b \in ThreadCalls : b < m => ut[b].pc # "idle"
          /\ UT_Call(m, L)
    \/ \E m \in ThreadCalls : UT_Fetch(m)
    \/ \E m \in ThreadCalls : UT_Get(m)
    \/ \E m \in ThreadCalls : UT_Create(m)
    \/ \E L \in ListURLs : TM_threads(L)
    \/ \E t \in ThreadURLs : TM_emails(t)

SpecReads == Init /\ [][NextReads]_vars

\* All the writers of the store, one call at a time: the update_emails calls
\* in order, and between them, once an Email is stored, one update_threads
\* and one subscribe_lists call.  The archive grows between the calls.
NothingInFlight == NoCallInFlight /\ NoUpdateInFlight /\ NoSubscribeInFlight

NextWrites ==
    \/ \E t \in ThreadURLs : \E u \in Range(ItemOrder(t)) :
          NothingInFlight /\ RemoteAppend(t, u)
    \/ \E c \in Calls : \E t \in ThreadURLs :
          /\ NothingInFlight
          /\ \A b \in Calls : b < c => ue[b].pc # "idle"
          /\ UE_Call(c, t)
    \/ \E c \in Calls : UE_FetchUrlList(c)
    \/ \E c \in Calls : UE_FilterExisting(c)
    \/ \E c \in Calls : UE_FetchBodies(c)
    \/ \E c \in Calls : \E i \in 1..MaxListing : Create_SenderGet(c, i)
    \/ \E c \in Calls : \E i \in 1..MaxListing : Create_SenderInsert(c, i)
    \/ \E c \in Calls : \E i \in 1..MaxListing : Create_SenderRecover(c, i)
    \/ \E c \in Calls : \E i \in 1..MaxListing : Create_EmailGet(c, i)
    \/ \E c \in Calls : \E i \in 1..MaxListing : Create_EmailInsert(c, i)
    \/ \E c \in Calls : UE_Return(c)
    \/ \E L \in ListURLs :
          NothingInFlight /\ emails # <<>> /\ UT_Call(1, L)
    \/ \E m \in ThreadCalls : UT_Fetch(m)
    \/ \E m \in ThreadCalls : UT_Get(m)
    \/ \E m \in ThreadCalls : UT_Create(m)
    \/ \E lists \in SeqsUpTo(ListRecords, MaxSubscribe) :
          NothingInFlight /\ emails # <<>> /\ SL_Call(1, lists)
    \/ \E s \in SubCalls : SL_Get(s)
    \/ \E s \in SubCalls : SL_Create(s)

SpecWrites == Init /\ [][NextWrites]_vars

\* ================================================================ claims

\* The body-fetch phase of call c has ended (fetch_urls(new_urls) returned or raised).
BodyFetchEnded(c) ==
    \/ ue[c].pc = "persist"
    \/ ue[c].pc = "returned" /\ ue[c].new_urls # <<>>
    \/ ue[c].pc = "raised" /\ ue[c].err \notin {"RemoteURLFetchException", "IndexError"}

\* C1: a call that found the urls `known` stored for its thread and was served
\* the listing reply_urls issues body GETs for exactly the listed urls that
\* are not known, none for a known one, and when it returns it returns one
\* Email per such url; with no such url it returns the empty list, having
\* issued no body GET and started no persistence task.
C1_FetchesExactlyTheNewBodies ==
    \A c \in Calls :
        LET known == ue[c].existing_email_urls
            fresh == SelectSeq(ue[c].reply_urls, LAMBDA u : u \notin known)
        IN  /\ BodyFetchEnded(c) =>
                 /\ ue[c].requested = fresh
                 /\ Range(ue[c].requested) \cap known = {}
            /\ ue[c].pc = "returned" => Len(ue[c].result) = Len(fresh)
            /\ (ue[c].pc = "returned" /\ fresh = <<>>) =>
                 /\ ue[c].result = <<>>
                 /\ ue[c].requested = <<>>
                 /\ ue[c].tasks = <<>>

\* C1 witness: a call returned new emails for a thread that had emails stored.
C1_Witness ==
    \E c \in Calls :
        /\ ue[c].pc = "returned"
        /\ ue[c].existing_email_urls # {}
        /\ ue[c].result # <<>>
        /\ Range(ue[c].requested) \cap ue[c].existing_email_urls = {}

\* C2: over the whole run no email item url is requested more than once, and
\* no url is requested while a stored Email carries it.
C2_AtMostOnceOverLifetime ==
    /\ \A u \in EmailURLs : bodyGets[u] <= 1
    /\ staleGets = {}

\* C3: once an update_threads pass of list L has returned, every Thread row of
\* L for a thread of its page, and the object it returned for that thread,
\* carries a replies_count no older than the one the page reported.
C3_ReplyCountGrowthVisible ==
    \A m \in ThreadCalls :
        ut[m].pc = "returned" =>
            \A k \in DOMAIN ut[m].page :
                /\ \A j \in DOMAIN threads :
                       (threads[j].thread_id = ut[m].page[k].thread_id
                          /\ threads[j].mailinglist = ut[m].ml)
                       => threads[j].replies_count >= ut[m].page[k].replies_count
                /\ threads[ut[m].thread_objs[k]].mailinglist = ut[m].ml
                       => threads[ut[m].thread_objs[k]].replies_count
                              >= ut[m].page[k].replies_count

\* The persistence tasks made so far, over all update_emails calls.
AllTasks == UNION {{<<c, i>> : i \in DOMAIN ue[c].tasks} : c \in Calls}

\* C4: at most one Sender row per mailman_id; no create() ends with the
\* constraint violation; every Email row, and every task past its sender
\* step, references the Sender row of its body's mailman_id; and while only
\* two persistence tasks exist no task exception reaches a caller.
C4_SenderRaceRecovery ==
    /\ \A j, k \in DOMAIN senders :
           senders[j].mailman_id = senders[k].mailman_id => j = k
    /\ \A ci \in AllTasks :
           LET task == ue[ci[1]].tasks[ci[2]]
           IN  /\ task.exc # "IntegrityError"
               /\ task.pc \in {"email_get", "email_create", "done"} =>
                      /\ task.sender_obj \in DOMAIN senders
                      /\ senders[task.sender_obj].mailman_id
                             = task.json.sender.mailman_id
    /\ \A k \in DOMAIN emails :
           /\ emails[k].sender \in DOMAIN senders
           /\ senders[emails[k].sender].mailman_id
                  = EmailJson(emails[k].url).sender.mailman_id
    /\ Cardinality(AllTasks) <= 2 =>
           \A c \in Calls : ue[c].err \notin {"IntegrityError", "MultipleMatches"}

\* C4 witness: a task whose Sender insert was refused has finished, and its
\* Email row and another task's Email row reference the same Sender row.
C4_Witness ==
    \E ci \in AllTasks : \E k \in DOMAIN emails :
        LET task == ue[ci[1]].tasks[ci[2]]
        IN  /\ task.recovered
            /\ task.pc = "done"
            /\ task.created
            /\ k # task.obj
            /\ emails[k].sender = emails[task.obj].sender
            /\ Cardinality(Sender_filter(task.json.sender.mailman_id)) = 1

\* C5: no two Email rows carry the same message_id_hash.
C5_EmailHashUnique ==
    \A j, k \in DOMAIN emails :
        emails[j].message_id_hash = emails[k].message_id_hash => j = k

\* C6: when subscribe_lists calls are made one after the other, any two
\* returned results for the same record name the same row, and that row is
\* the only MailingList row with the record's url.
C6_IdempotentSubscription ==
    \A s1, s2 \in SubCalls :
        (sl[s1].pc = "returned" /\ sl[s2].pc = "returned") =>
            \A i \in DOMAIN sl[s1].lists : \A j \in DOMAIN sl[s2].lists :
                sl[s1].lists[i] = sl[s2].lists[j] =>
                    /\ sl[s1].objs[i] = sl[s2].objs[j]
                    /\ {r \in DOMAIN mailinglists :
                           mailinglists[r].url = sl[s1].lists[i].url}
                         = {sl[s1].objs[i]}

\* C6 witness: two calls have returned for the same record.
C6_Witness ==
    \E s1, s2 \in SubCalls :
        /\ s1 # s2
        /\ sl[s1].pc = "returned" /\ sl[s2].pc = "returned"
        /\ sl[s1].lists # <<>> /\ sl[s2].lists # <<>>
        /\ sl[s1].lists[1] = sl[s2].lists[1]
        /\ sl[s1].objs[1] = sl[s2].objs[1]

\* C7: no two MailingList rows carry the same url, and no two Thread rows of
\* one mailing list carry the same thread_id.
C7_ListAndThreadIdentityUnique ==
    /\ \A j, k \in DOMAIN mailinglists :
           mailinglists[j].url = mailinglists[k].url => j = k
    /\ \A j, k \in DOMAIN threads :
           (threads[j].thread_id = threads[k].thread_id
              /\ threads[j].mailinglist = threads[k].mailinglist) => j = k

\* The positions of the responses with / without status 200.
Answered200(results) == {i \in DOMAIN results : results[i].status_code = "200"}

\* C8: with no transport error in the batch, fetch_urls does not raise,
\* whatever the logger; succeeded holds the bodies of the 200 responses and
\* failed the other responses.
C8_PartialFailureIsolated ==
    (fu.pc = "done"
       /\ \A i \in DOMAIN fu.results : fu.results[i].status_code # "ConnectError")
    => /\ fu.out.outcome = "ok"
       /\ Len(fu.out.success) = Cardinality(Answered200(fu.results))
       /\ Len(fu.out.failed) = Len(fu.results) - Cardinality(Answered200(fu.results))
       /\ Range(fu.out.success) = {fu.results[i].json : i \in Answered200(fu.results)}

\* C9: when exactly one of the new body urls of a call answered non-200 and
\* the others 200, the call does not raise and returns one Email fewer than
\* it requested.
C9_PartialContentReturned ==
    \A c \in Calls :
        (/\ ue[c].requested # <<>>
         /\ \A i \in DOMAIN ue[c].answers : ue[c].answers[i] # "ConnectError"
         /\ Cardinality({i \in DOMAIN ue[c].answers : ue[c].answers[i] # "200"}) = 1)
        => /\ ue[c].pc # "raised"
           /\ ue[c].pc = "returned" => Len(ue[c].result) = Len(ue[c].requested) - 1

\* C10: every object a returned update_emails call hands back is a row that
\* call created.
C10_ReturnsOnlyCreatedRows ==
    \A c \in Calls :
        ue[c].pc = "returned" =>
            \A i \in DOMAIN ue[c].tasks : ue[c].tasks[i].created

\* C11: once an update_emails call on thread T has returned with every body
\* answering 200, the Email rows of T hold exactly one row for every item url
\* the call was served; and of two such calls on T served the same listing,
\* made one after the other, one requested no body (and so returned nothing).
C11_SyncConvergesAndIsIdempotent ==
    /\ \A c \in Calls :
          (ue[c].pc = "returned"
             /\ \A i \in DOMAIN ue[c].answers : ue[c].answers[i] = "200")
          => \A u \in Range(ue[c].reply_urls) :
                 Cardinality({k \in Email_filter_thread(ue[c].thread) :
                                 emails[k].url = u}) = 1
    /\ \A c1, c2 \in Calls :
          (/\ c1 # c2
           /\ ue[c1].pc = "returned" /\ ue[c2].pc = "returned"
           /\ ue[c1].thread = ue[c2].thread
           /\ ue[c1].reply_urls = ue[c2].reply_urls
           /\ \A i \in DOMAIN ue[c1].answers : ue[c1].answers[i] = "200"
           /\ \A i \in DOMAIN ue[c2].answers : ue[c2].answers[i] = "200")
          => \/ ue[c1].requested = <<>> /\ ue[c1].result = <<>>
             \/ ue[c2].requested = <<>> /\ ue[c2].result = <<>>

\* C12: once update_threads on the manager of list L has returned, the Thread
\* rows of L (what threads() reads) hold a row for every thread record of the
\* page it was served.
C12_PageThreadsStoredForOwnList ==
    \A m \in ThreadCalls :
        ut[m].pc = "returned" =>
            \A k \in DOMAIN ut[m].page :
                \E j \in DOMAIN threads :
                    /\ threads[j].mailinglist = ut[m].ml
                    /\ threads[j].thread_id = ut[m].page[k].thread_id

\* C13: the step in which the GET of the thread's emails collection ends in a
\* connection error ends the call with RemoteURLFetchException carrying the
\* collection URL and writes no Sender or Email row; the call has issued no
\* body GET and made no persistence task, and takes no step afterwards.
C13_ListingTransportFailure ==
    [][\A c \in Calls :
          /\ (ue[c].pc = "fetch_list" /\ ue'[c].list_status = "ConnectError")
             => /\ ue'[c].pc = "raised"
                /\ ue'[c].err = "RemoteURLFetchException"
                /\ ue'[c].err_arg = EmailsCollection(ue[c].thread)
                /\ ue'[c].requested = <<>> /\ ue'[c].tasks = <<>>
                /\ senders' = senders /\ emails' = emails
          /\ ue[c].list_status = "ConnectError" => ue'[c] = ue[c]]_vars

\* C13 witness: a call on a thread with stored emails ended with
\* RemoteURLFetchException after a connection error on the listing.
C13_Witness ==
    \E c \in Calls :
        /\ ue[c].list_status = "ConnectError"
        /\ ue[c].pc = "raised"
        /\ ue[c].err = "RemoteURLFetchException"
        /\ Email_filter_thread(ue[c].thread) # {}

\* The typed remote errors.
TypedRemoteErrors == {"RemoteRequestError", "RemoteConnectError", "RemoteURLFetchException"}

\* C14: an update_emails call one of whose body GETs ended in a transport
\* failure raised one of the typed remote errors, carrying a URL.
C14_BodyTransportFailureTyped ==
    \A c \in Calls :
        (\E i \in DOMAIN ue[c].answers : ue[c].answers[i] = "ConnectError")
        => /\ ue[c].pc = "raised"
           /\ ue[c].err \in TypedRemoteErrors
           /\ ue[c].err_arg # "none"

\* C15: an update_emails call whose emails-collection GET was answered with a
\* status other than 200 raised a request failure carrying that status, and
\* issued no body GET and made no persistence task.
C15_ListingNon200Reported ==
    \A c \in Calls :
        ue[c].list_status \notin {"none", "200", "ConnectError"}
        => /\ ue[c].pc = "raised"
           /\ ue[c].err = "RemoteRequestError"
           /\ ue[c].err_arg = ue[c].list_status
           /\ ue[c].requested = <<>> /\ ue[c].tasks = <<>>

\* C17: a fetch_urls call in whose batch a GET ended in a transport failure
\* ends with an error and hands the caller neither a succeeded nor a failed
\* list, whatever the other responses and whatever the logger.
C17_TransportFailureAbortsBatch ==
    (fu.pc = "done"
       /\ \E i \in DOMAIN fu.results : fu.results[i].status_code = "ConnectError")
    => /\ fu.out.outcome \notin {"ok", "none"}
       /\ fu.out.success = <<>>
       /\ fu.out.failed = <<>>

\* C17 witness: the call ended with the transport error although another
\* response of the batch was a 200 and a third a 404.
C17_Witness ==
    /\ fu.pc = "done"
    /\ fu.out.outcome = "ConnectError"
    /\ \E i, j, k \in DOMAIN fu.results :
          /\ fu.results[i].status_code = "ConnectError"
          /\ fu.results[j].status_code = "200"
          /\ fu.results[k].status_code = "404"

\* C18: every Email row references a Sender row; and when a cancelled
\* update_emails call on thread T was followed by a call on T that returned,
\* the store holds exactly one Email row of T for every item url the later
\* call was served, no two Email rows with the same message_id_hash, and no
\* two Sender rows with the same mailman_id.
C18_CancellationRecovery ==
    /\ \A k \in DOMAIN emails : emails[k].sender \in DOMAIN senders
    /\ \A c1, c2 \in Calls :
          (/\ c1 < c2
           /\ ue[c1].pc = "cancelled"
           /\ ue[c2].pc = "returned"
           /\ ue[c1].thread = ue[c2].thread)
          => /\ \A u \in Range(ue[c2].reply_urls) :
                   Cardinality({k \in Email_filter_thread(ue[c2].thread) :
                                   emails[k].url = u}) = 1
             /\ \A j, k \in DOMAIN emails :
                   emails[j].message_id_hash = emails[k].message_id_hash => j = k
             /\ \A j, k \in DOMAIN senders :
                   senders[j].mailman_id = senders[k].mailman_id => j = k

\* C19: a threads() call on a manager for whose list the store holds no
\* Thread row, and an emails(thread) call for a thread of which the store
\* holds no Email row, returns the empty sequence (no error, no null).
C19_EmptyStateReads ==
    [][rd' # rd =>
          /\ (rd'.op = "threads"
                /\ \A j \in DOMAIN threads : threads[j].mailinglist # rd'.arg)
             => rd'.out = <<>> /\ rd'.err = "none"
          /\ (rd'.op = "emails" /\ Email_filter_thread(rd'.arg) = {})
             => rd'.out = <<>> /\ rd'.err = "none"]_vars

\* C19 witness: emails(thread) returned the empty sequence for a thread
\* without stored emails while the store held emails of another thread.
C19_Witness ==
    /\ rd.op = "emails"
    /\ rd.out = <<>>
    /\ rd.err = "none"
    /\ Email_filter_thread(rd.arg) = {}
    /\ emails # <<>>

\* C20: a threads() or emails(thread) call issues no GET and changes no table
\* and no coroutine; threads() returns, each once, exactly the Thread rows
\* whose mailinglist is the manager's list url, and emails(thread) exactly
\* the Email rows whose thread is thread.url.
C20_ReadsArePure ==
    [][rd' # rd =>
          /\ gets' = gets
          /\ UNCHANGED <<emailVars, fu, listVars, threadVars, hk, restVars>>
          /\ Cardinality(Range(rd'.out)) = Len(rd'.out)
          /\ rd'.op = "threads" =>
                Range(rd'.out) = {j \in DOMAIN threads : threads[j].mailinglist = rd'.arg}
          /\ rd'.op = "emails" =>
                Range(rd'.out) = {k \in DOMAIN emails : emails[k].thread = rd'.arg}]_vars

\* C20 witness: threads() returned some but not all of the stored Thread rows.
C20_Witness ==
    /\ rd.op = "threads"
    /\ rd.out # <<>>
    /\ Len(rd.out) < Len(threads)
    /\ \A i \in DOMAIN rd.out : threads[rd.out[i]].mailinglist = rd.arg

\* C16: a call of the remote client whose GET was answered with a status
\* other than 200 raised an error carrying that status; it did not return.
C16_Non200IsAnError ==
    hk.last.status \notin {"none", "200"}
    => /\ hk.last.outcome = "raise"
       /\ hk.last.err \in {"RemoteRequestError", "HTTPStatusError"}

\* C21: with subscribe_lists calls made one after the other, no call raises;
\* no step changes a stored MailingList row; the object appended for a record
\* is a row with the record's url, and when a row with that url was already
\* stored it is that row and nothing is inserted; a call that has returned
\* has returned one object per input record, in input order.
C21_SubscribeReturnsRowsInOrder ==
    [][\A s \in SubCalls :
          /\ sl'[s].pc # "raised"
          /\ \A j \in DOMAIN mailinglists :
                j \in DOMAIN mailinglists' /\ mailinglists'[j] = mailinglists[j]
          /\ Len(sl'[s].objs) = Len(sl[s].objs) + 1 =>
                LET i == Len(sl'[s].objs)
                    url == sl[s].lists[i].url
                IN  /\ sl'[s].objs[i] \in DOMAIN mailinglists'
                    /\ mailinglists'[sl'[s].objs[i]].url = url
                    /\ MailingList_filter(url) # {} =>
                          /\ sl'[s].objs[i] \in MailingList_filter(url)
                          /\ mailinglists' = mailinglists
          /\ sl'[s].pc = "returned" =>
                /\ Len(sl'[s].objs) = Len(sl'[s].lists)
                /\ \A i \in DOMAIN sl'[s].objs :
                      mailinglists'[sl'[s].objs[i]].url = sl'[s].lists[i].url]_vars

\* C21 witness: a call returned, for a record of an already subscribed list,
\* the stored row, whose description differs from the record's.
C21_Witness ==
    \E s \in SubCalls : \E i \in DOMAIN sl[s].objs :
        /\ sl[s].pc = "returned"
        /\ Len(sl[s].lists) = 2
        /\ mailinglists[sl[s].objs[i]].url = sl[s].lists[i].url
        /\ mailinglists[sl[s].objs[i]].description # sl[s].lists[i].description

\* C22: a fetch_lists call changes no MailingList row and no subscription in
\* progress; lists() returns all the stored MailingList rows, so the same
\* rows before and after a fetch_lists; and every step that changes the
\* mailinglist table is a step of a subscribe_lists call.
C22_DiscoveryDoesNotSubscribe ==
    [][/\ fl' # fl => mailinglists' = mailinglists /\ sl' = sl
       /\ (rd' # rd /\ rd'.op = "lists") =>
             /\ Range(rd'.out) = DOMAIN mailinglists
             /\ Len(rd'.out) = Len(mailinglists)
       /\ mailinglists' # mailinglists =>
             \E s \in SubCalls : sl[s].pc = "create" /\ sl'[s] # sl[s]]_vars

\* C22 witness: a fetch_lists call returned a page holding a list that is
\* not subscribed, while another list is.
C22_Witness ==
    /\ fl.outcome = "ok"
    /\ mailinglists # <<>>
    /\ \E i \in DOMAIN fl.page : MailingList_filter(fl.page[i].url) = {}
    /\ rd.op = "lists" /\ Len(rd.out) = Len(mailinglists)

\* C23: every Email row references a Sender row that exists, and every step
\* that writes an Email row writes it with a Sender row that was already
\* stored before the step.
C23_EmailReferencesStoredSender ==
    [][/\ \A k \in DOMAIN emails : emails[k].sender \in DOMAIN senders
       /\ \A k \in DOMAIN emails' :
             /\ emails'[k].sender \in DOMAIN senders'
             /\ k \notin DOMAIN emails => emails'[k].sender \in DOMAIN senders]_vars

\* C23 witness: an Email row was written by a task that went through the
\* recovery branch, and its sender is a stored row.
C23_Witness ==
    \E c \in Calls : \E i \in DOMAIN ue[c].tasks :
        /\ ue[c].tasks[i].recovered
        /\ ue[c].tasks[i].created
        /\ emails[ue[c].tasks[i].obj].sender \in DOMAIN senders

\* C24: a stored Email row is permanent and immutable: no step of
\* update_emails, update_threads or subscribe_lists removes it, moves it or
\* changes one of its fields.
C24_StoredEmailsImmutable ==
    [][\A k \in DOMAIN emails :
          k \in DOMAIN emails' /\ emails'[k] = emails[k]]_vars

\* A second update_emails call met a row stored by the first one, after an
\* update_threads and a subscribe_lists call had run, and returned.
C24_Witness ==
    /\ ue[1].pc = "returned" /\ ue[2].pc = "returned"
    /\ ut[1].pc = "returned" /\ sl[1].pc = "returned"
    /\ \E i \in DOMAIN ue[2].tasks :
          /\ ~ue[2].tasks[i].created
          /\ ue[2].tasks[i].obj \in DOMAIN emails

\* C25: a fetch_urls call with no transport failure in its batch returns
\* success and failed with len(success) + len(failed) = len(urls), success
\* being the bodies of the 200 responses in input order; a call on no url
\* returns two empty sequences and issues no GET.
C25_FetchUrlsPartitionsInput ==
    (fu.pc = "done"
       /\ \A i \in DOMAIN fu.results : fu.results[i].status_code # "ConnectError")
    => LET ok == Indices(fu.results, LAMBDA i : fu.results[i].status_code = "200")
       IN  /\ fu.out.outcome = "ok"
           /\ Len(fu.out.success) + Len(fu.out.failed) = Len(fu.results)
           /\ fu.out.success = [k \in 1..Len(ok) |-> fu.results[ok[k]].json]
           /\ fu.results = <<>> =>
                 fu.out.success = <<>> /\ fu.out.failed = <<>> /\ gets = 0

\* The ids of the threads the app holds in memory for list L.
HeldIds(e, L) == IF L \in DOMAIN e.lists THEN Ids(e.lists[L]) ELSE {}

\* The ids of the threads the cache holds for list L: those of the threads
\* saved under L's threads key, as thread entries or under L's name.
SavedIds(L) ==
    LET v == cache_get(threads_key(L), NoValue)
    IN  Ids(v.threads) \cup HeldIds(v, L)

\* C26: a step that brings a thread into the app's threads of list L marks it
\* is_new exactly when the cache held no thread of that id for L, and no step
\* turns is_new on for a thread the app already holds.
C26_NewFlagOnlyForUncachedThreads ==
    [][\A L \in DOMAIN existing_threads'.lists :
          \A i \in DOMAIN existing_threads'.lists[L] :
             LET t == existing_threads'.lists[L][i]
             IN  IF t.thread_id \in HeldIds(existing_threads, L)
                 THEN t.is_new =>
                        existing_threads.lists[L][
                           IndexOf(existing_threads.lists[L], t.thread_id)].is_new
                 ELSE t.is_new <=> t.thread_id \notin SavedIds(L)]_vars

\* C27: a step in which a thread the app holds for a list gets a greater
\* replies_count sets has_new to the difference and replies_count to the
\* count the archive serves; the replies_count of a thread held in memory, or
\* saved in the cache under a list's name, never decreases.
C27_ReplyCountDelta ==
    [][/\ \A L \in DOMAIN existing_threads.lists \cap DOMAIN existing_threads'.lists :
            \A id \in HeldIds(existing_threads, L) \cap HeldIds(existing_threads', L) :
               LET old == existing_threads.lists[L][
                             IndexOf(existing_threads.lists[L], id)]
                   new == existing_threads'.lists[L][
                             IndexOf(existing_threads'.lists[L], id)]
               IN  /\ new.replies_count >= old.replies_count
                   /\ new.replies_count > old.replies_count =>
                         /\ new.has_new = new.replies_count - old.replies_count
                         /\ new.replies_count = remoteThreads[<<L, id>>]
       /\ \A key \in DOMAIN cache \cap DOMAIN cache' :
            \A L \in DOMAIN cache[key].lists \cap DOMAIN cache'[key].lists :
               \A id \in HeldIds(cache[key], L) \cap HeldIds(cache'[key], L) :
                  cache'[key].lists[L][IndexOf(cache'[key].lists[L], id)].replies_count
                     >= cache[key].lists[L][IndexOf(cache[key].lists[L], id)].replies_count
      ]_vars

\* A thread was held with one reply, and a later _load_new_threads found two.
C27_Witness ==
    \E L \in DOMAIN existing_threads.lists :
       \E i \in DOMAIN existing_threads.lists[L] :
          /\ existing_threads.lists[L][i].replies_count = 2
          /\ existing_threads.lists[L][i].has_new = 1
          /\ existing_threads.lists[L][i].date_active = 3

\* C28: has_new counts the replies that arrived since the thread was last
\* read: a step in which a thread the app holds gets a greater replies_count
\* adds the difference to the has_new the thread had.
C28_UnreadCountAccumulates ==
    [][\A L \in DOMAIN existing_threads.lists \cap DOMAIN existing_threads'.lists :
          \A id \in HeldIds(existing_threads, L) \cap HeldIds(existing_threads', L) :
             LET old == existing_threads.lists[L][
                           IndexOf(existing_threads.lists[L], id)]
                 new == existing_threads'.lists[L][
                           IndexOf(existing_threads'.lists[L], id)]
             IN  new.replies_count > old.replies_count =>
                    new.has_new = old.has_new + (new.replies_count - old.replies_count)
      ]_vars

RECURSIVE MergedOver(_, _)
MergedOver(cached, held) ==
    IF held = <<>> THEN cached
    ELSE LET t == Head(held)
             c == IF t.thread_id \in Ids(cached)
                  THEN [cached EXCEPT ![IndexOf(cached, t.thread_id)] = t]
                  ELSE Append(cached, t)
         IN  MergedOver(c, Tail(held))

\* C30: a step that writes the cache leaves under the threads key of the
\* current list a dict of threads keyed by thread id and nothing else: the
\* threads held for that list merged over the ones cached before; and a step
\* in which a worker loads the saved threads of its list makes the threads
\* cached under that key the app's threads of the list.
C30_ThreadCacheRoundTrip ==
    [][/\ cache' # cache =>
            LET L    == current_mailinglist
                key  == threads_key(L)
                held == IF L \in DOMAIN existing_threads.lists
                        THEN existing_threads.lists[L] ELSE <<>>
            IN  /\ key \in DOMAIN cache'
                /\ cache'[key].threads =
                      MergedOver(cache_get(key, NoValue).threads, held)
                /\ DOMAIN cache'[key].lists = {}
                /\ ~cache'[key].ml
       /\ \A w \in Workers :
            (/\ workers[w].pc = "clear" /\ workers'[w].pc # "clear"
             /\ Truthy(cache_get(threads_key(workers[w].ml), NoValue)))
            => /\ workers[w].ml \in DOMAIN existing_threads'.lists
               /\ existing_threads'.lists[workers[w].ml] =
                     cache_get(threads_key(workers[w].ml), NoValue).threads
      ]_vars

\* C31: a step that brings a thread into the threads of the current list, or
\* moves the replies_count of one of them, leaves them in non-increasing
\* order of date_active with the thread of the most recent activity in the
\* archive first.
C31_MostRecentThreadFirst ==
    [][LET L == current_mailinglist
       IN  (/\ L # "none"
            /\ L \in DOMAIN existing_threads'.lists
            /\ \E i \in DOMAIN existing_threads'.lists[L] :
                  LET t == existing_threads'.lists[L][i]
                  IN  \/ t.thread_id \notin HeldIds(existing_threads, L)
                      \/ t.replies_count #
                            existing_threads.lists[L][
                               IndexOf(existing_threads.lists[L], t.thread_id)
                            ].replies_count)
           => LET ts == existing_threads'.lists[L]
              IN  /\ \A i, j \in DOMAIN ts :
                        i < j => ts[i].date_active >= ts[j].date_active
                  /\ \A j \in DOMAIN ts :
                        date_active(ts[1].thread_id,
                                    remoteThreads[<<L, ts[1].thread_id>>])
                          >= date_active(ts[j].thread_id,
                                         remoteThreads[<<L, ts[j].thread_id>>])
      ]_vars

\* The thread of id held for list L in e.
Held(e, L, id) == e.lists[L][IndexOf(e.lists[L], id)]

\* C32: a step in which a Thread widget's read goes from False to True
\* leaves is_new False and has_new 0 in the widget and in its data and posts
\* one Thread.Updated; the step that handles the message leaves the entry of
\* that thread under the current list with is_new False and has_new 0; and
\* no later step sets them again for a thread without new replies: neither
\* for a thread the app holds, nor when it takes up a thread the cache holds
\* as read.
C32_ReadClearsTheFlags ==
    [][/\ \A i \in DOMAIN threads_view \cap DOMAIN threads_view' :
            (/\ threads_view'[i].thread_id = threads_view[i].thread_id
             /\ ~threads_view[i].read /\ threads_view'[i].read)
            => LET L  == threads_view[i].mailinglist
                   id == threads_view[i].thread_id
               IN  /\ ~threads_view'[i].is_new /\ threads_view'[i].has_new = 0
                   /\ id \in HeldIds(existing_threads', L)
                   /\ ~Held(existing_threads', L, id).is_new
                   /\ Held(existing_threads', L, id).has_new = 0
                   /\ Len(updated') = Len(updated) + 1
       /\ (updated # <<>> /\ updated' = Tail(updated) /\ current_mailinglist' # "none")
            => LET L  == current_mailinglist
                   id == Head(updated).thread_id
               IN  /\ id \in HeldIds(existing_threads', L)
                   /\ ~Held(existing_threads', L, id).is_new
                   /\ Held(existing_threads', L, id).has_new = 0
       /\ \A L \in DOMAIN existing_threads'.lists :
            \A id \in HeldIds(existing_threads', L) :
               LET new == Held(existing_threads', L, id)
               IN  IF id \in HeldIds(existing_threads, L)
                   THEN new.replies_count = Held(existing_threads, L, id).replies_count
                        => /\ new.is_new => Held(existing_threads, L, id).is_new
                           /\ new.has_new <= Held(existing_threads, L, id).has_new
                   ELSE LET v == cache_get(threads_key(L), NoValue)
                        IN  (/\ id \in HeldIds(v, L)
                             /\ ~Held(v, L, id).is_new
                             /\ Held(v, L, id).replies_count = new.replies_count)
                            => ~new.is_new
      ]_vars

C36_LoadingHiddenAfterSync ==
    (/\ NoWorkerInFlight
     /\ \E w \in Workers : workers[w].pc = "error")
        => ~loading

\* C35: Hyperkitty.lists caches its result: a lists() call that follows a
\* lists() call answered 200 on the same instance issues no request and
\* returns what that call returned, also when the 200 answer carried no
\* list; and a lists() call answered by another status leaves the cached
\* value as it was.
C35_ListsResultIsCached ==
    [][/\ (/\ hk.last.op = "lists"
           /\ hk.last.status = "200"
           /\ hk'.n = hk.n + 1
           /\ hk'.last.op = "lists")
          => (/\ gets' = gets
              /\ hk'.last.status = "none"
              /\ hk'.last.items = hk.last.items)
       /\ (/\ hk'.n = hk.n + 1
           /\ hk'.last.op = "lists"
           /\ hk'.last.status \notin {"200", "none"})
          => hk'.lists_json = hk.lists_json]_vars

NoDuplicates(s) == \A i, j \in DOMAIN s : s[i] = s[j] => i = j

IsPrefix(s, t) == Len(s) <= Len(t) /\ \A i \in DOMAIN s : t[i] = s[i]

\* C37: the stored list of subscribed lists has no duplicates, and for every
\* argument of _store_subscribed_lists the value it stores keeps the stored
\* entries in front, holds exactly the stored names and the names passed,
\* each once, and is what storing the same argument a second time gives.
C37_SubscribedHasNoDuplicates ==
    /\ NoDuplicates(subscribed.names)
    /\ \A lists \in StoreInputs :
          LET once == store_subscribed_lists(stored_subscribed, lists)
          IN  /\ NoDuplicates(once)
              /\ IsPrefix(stored_subscribed, once)
              /\ Range(once) = Range(stored_subscribed) \cup Range(lists)
              /\ store_subscribed_lists(once, lists) = once

\* _store_subscribed_lists has stored both names, "B" before "A".
C37_Witness ==
    /\ subscribed.present
    /\ subscribed.names = <<"B", "A">>

\* C34: ThreadReadScreen.on_mount loads and shows the stored emails first:
\* an update_emails call is started only by a screen whose load has
\* finished (the stored emails of the thread are in the view, the indicator
\* is hidden) and whose stored count is below replies_count + 1; a screen
\* whose stored count is at least replies_count + 1 is mounted without an
\* update, and a network request is issued only for a screen that is
\* updating with a stored count below replies_count + 1.
C34_MountLoadsBeforeUpdating ==
    [][/\ \A c \in Calls :
             (ue[c].pc = "idle" /\ ue'[c].pc # "idle")
                => /\ screen.pc = "loaded"
                   /\ ~screen.loading
                   /\ screen.view =
                         Indices(emails, LAMBDA k : emails[k].thread = screen.thread)
                   /\ screen.stored_replies = Len(screen.view)
                   /\ screen.stored_replies < screen.replies_count + 1
                   /\ ue'[c].thread = screen.thread
       /\ (screen.pc = "loaded" /\ screen'.pc = "mounted")
             <=> (/\ screen.pc = "loaded"
                  /\ screen' # screen
                  /\ screen.stored_replies >= screen.replies_count + 1)
       /\ gets' # gets
             => /\ screen.pc = "update"
                /\ screen.stored_replies < screen.replies_count + 1]_vars

\* A thread with stored emails was opened and mounted without an update:
\* as many emails as replies_count + 1 were stored.
C34_Witness ==
    /\ screen.pc = "mounted"
    /\ screen.call = 0
    /\ screen.stored_replies >= 1
    /\ screen.view # <<>>


====
